---------------------------- MODULE Spec2Model ----------------------------
(***************************************************************************)
(* The monitoring subsystem of the assistant: ErrorTracker, SystemMonitor, *)
(* UsageAnalytics, PerformanceMonitor, MetricsCollector and AlertManager   *)
(* (src/src/monitoring).  Every component keeps its own variables and has  *)
(* its own specification; the components share no state in the source.     *)
(***************************************************************************)
EXTENDS Integers, Sequences, FiniteSets, TLC

VARIABLES
    \* ---- ErrorTracker (error_tracker.py)
    et_clock,      \* datetime.now(), in ticks; TicksPerDay ticks make a calendar day
    et_files,      \* error_dir: day |-> the state of errors_<YYYYMMDD>.json
    et_pc,         \* caller thread |-> its position inside track_error
    et_local,      \* caller thread |-> the locals of its track_error call
    et_calls,      \* caller thread |-> track_error calls that have returned
    et_logged,     \* number of "Error tracking error" lines logged (records dropped)
    et_summary,    \* the value the last get_error_summary call returned
    et_details,    \* the value the last get_error_details call returned
    \* ---- SystemMonitor (system_monitor.py)
    sm_clock,           \* datetime.now(), in seconds
    sm_running,         \* self.running
    sm_threads,         \* every thread start_monitoring created: its target and position
    sm_monitor_thread,  \* self.monitor_thread: an index of sm_threads, 0 while unset
    sm_logging_thread,  \* self.logging_thread
    sm_current_metrics, \* self.current_metrics
    sm_queue,           \* self.metrics_queue
    sm_files,           \* log_dir: timestamp |-> contents of system_metrics_<timestamp>.json
    sm_caller,          \* the calling thread's position inside stop_monitoring
    sm_result,          \* how the caller's last start/stop call ended
    sm_starts,          \* start_monitoring calls made
    sm_samples,         \* samples taken by the sampling threads
    \* ---- UsageAnalytics (usage_analytics.py)
    ua_clock,      \* datetime.now(), in ticks; TicksPerSecond ticks make a second
    ua_session,    \* self.current_session
    ua_files,      \* analytics_dir: file name |-> the state of session_<timestamp>.json
    ua_saves,      \* save_session calls that wrote their file and reset the session
    ua_logged,     \* "Error saving session data" lines logged
    ua_ops,        \* calls made on the object
    ua_raised,     \* the exception the last call raised to its caller, or "none"
    ua_report,     \* what the last generate_report call returned
    ua_report_lines,  \* the error lines the last generate_report has logged
    \* ---- PerformanceMonitor, MetricsCollector, AlertManager
    mon_clock,         \* datetime.now() as these three read it
    pm_metrics,        \* PerformanceMonitor._metrics: metric type |-> deque(maxlen=1000)
    pm_thresholds,     \* PerformanceMonitor.thresholds
    pm_raised,         \* the exception the last PerformanceMonitor call raised, or "none"
    mc_thresholds,     \* config['monitoring.alert_thresholds'] of the MetricsCollector
    am_alert_history,  \* _alert_history of the AlertManager the application holds
    alert_log,         \* the "Alert: ..." lines AlertManager.trigger_alert has logged
    mon_evaluations,   \* _check_thresholds calls made
    pm_threads,        \* the threads start_monitoring has created, each at a pc
    pm_monitor_thread, \* PerformanceMonitor._monitor_thread: a thread, or 0 for None
    pm_stop_monitoring,\* PerformanceMonitor._stop_monitoring, the Event
    pm_caller,         \* where the caller of stop_monitoring is
    pm_starts,         \* start_monitoring calls made
    pm_samples,        \* samples the sampling threads have taken
    pm_error_lines,    \* "Error monitoring performance" lines logged
    mon_heap,          \* the list objects of MetricsCollector and of get_metrics results
    mc_metrics_data,   \* MetricsCollector._metrics_data: name |-> list object, 0 = no key
    mon_returned,      \* the lists get_metrics of either monitor has returned
    mc_requests,       \* every duration passed to MetricsCollector.record_request
    mc_raised,         \* the exception the last MetricsCollector call raised, or "none"
    am_channels,       \* the notification settings of the application's AlertManager
    am_attempts,       \* the calls of _send_email_alert and _send_slack_alert made
    am_error_log,      \* the error lines the AlertManager has logged
    am_raised,         \* the exception the last trigger_alert raised, or "none"
    sm_snapshots,      \* the dicts SystemMonitor.get_current_metrics has returned
    sm_errors_json,    \* errors.json in the log directory of the SystemMonitor
    sm_error_lines,    \* "Error ..." lines record_error and get_error_rate have logged
    sm_error_rate,      \* the value the last get_error_rate call returned, None before
    sm_average,         \* <<the value the last get_average_response_time call returned>>
    \* ---- history
    sm_recorded,       \* every value passed to SystemMonitor.record_response_time
    pm_recorded        \* every point passed to PerformanceMonitor.record_response_time

et_vars == <<et_clock, et_files, et_pc, et_local, et_calls, et_logged, et_summary, et_details>>

sm_vars == <<sm_clock, sm_running, sm_threads, sm_monitor_thread, sm_logging_thread,
             sm_current_metrics, sm_queue, sm_files, sm_caller, sm_result, sm_starts,
             sm_samples>>

ua_rep == <<ua_report, ua_report_lines>>

ua_vars == <<ua_clock, ua_session, ua_files, ua_saves, ua_logged, ua_ops, ua_raised,
             ua_rep>>

am_vars == <<am_channels, am_attempts, am_error_log, am_raised>>

pm_thread_vars == <<pm_threads, pm_monitor_thread, pm_stop_monitoring, pm_caller,
                    pm_starts, pm_samples, pm_error_lines>>

mc_vars == <<mon_heap, mc_metrics_data, mon_returned, mc_requests, mc_raised>>

mon_vars == <<mon_clock, pm_metrics, pm_thresholds, pm_raised, mc_thresholds,
              am_alert_history, alert_log, mon_evaluations, pm_recorded, am_vars, mc_vars,
              pm_thread_vars>>

\* what the callers of a SystemMonitor reach besides its threads, queue and log
sm_aux == <<sm_snapshots, sm_errors_json, sm_error_lines, sm_error_rate, sm_average>>

vars == <<et_vars, sm_vars, sm_recorded, sm_aux, ua_vars, mon_vars>>

\* The components share no state: an operation of one leaves the others alone
OnlyErrorTracker == UNCHANGED <<sm_vars, sm_recorded, sm_aux, ua_vars, mon_vars>>
OnlySystemMonitor == UNCHANGED <<et_vars, ua_vars, mon_vars>>
OnlyUsageAnalytics == UNCHANGED <<et_vars, sm_vars, sm_recorded, sm_aux, mon_vars>>
OnlyMonitoring == UNCHANGED <<et_vars, sm_vars, sm_recorded, sm_aux, ua_vars>>

\* ------------------------------------------------------------------ bounds
NThreads == 2          \* caller threads of the concurrent specification
MaxCalls == 2          \* track_error calls per caller thread
TicksPerDay == 2       \* clock resolution: ticks in one calendar day
MaxClock == 5          \* the clock stops advancing here
MaxDays == 2           \* largest `days` argument tried
MaxStarts == 2         \* start_monitoring calls on one SystemMonitor
MaxSamples == 1        \* samples the sampling threads of one SystemMonitor take
MaxSeconds == 1        \* the SystemMonitor clock stops advancing here
TicksPerSecond == 2    \* clock resolution of UsageAnalytics: ticks in one second
MaxTicks == 2          \* the UsageAnalytics clock stops advancing here
MaxOps == 4            \* calls made on one UsageAnalytics
MaxOverflow == 3       \* record_response_time calls made beyond a buffer's capacity
MaxEvaluations == 2    \* _check_thresholds calls made
MaxAlerts == 1         \* trigger_alert calls the application makes
MaxMonTicks == 1       \* the clock of the monitors stops advancing here

\* an argument left at its default None
None == -1

Threads == 1..NThreads
Days == 0..(MaxClock \div TicksPerDay)

\* ------------------------------------------------------- exact quotients
RECURSIVE GCD(_, _)
GCD(a, b) == IF b = 0 THEN a ELSE GCD(b, a % b)

\* the quotient num / den of two integers, den > 0, kept exact: a fraction in
\* lowest terms
Frac(num, den) ==
    LET g == GCD(IF num < 0 THEN -num ELSE num, den)
    IN  [num |-> num \div g, den |-> den \div g]

FracAdd(x, y) == Frac(x.num * y.den + y.num * x.den, x.den * y.den)

\* x / n for an integer n > 0
FracOver(x, n) == Frac(x.num, x.den * n)

\* ----------------------------------------------------------- ErrorTracker
\* Exception class names, and each name spelled out so that str.endswith
\* can be computed on it.
ErrorNames == {"ValueError", "SystemError", "KeyError"}

Chars(name) ==
    CASE name = "ValueError"      -> <<"V","a","l","u","e","E","r","r","o","r">>
      [] name = "SystemError"     -> <<"S","y","s","t","e","m","E","r","r","o","r">>
      [] name = "KeyError"        -> <<"K","e","y","E","r","r","o","r">>
      [] name = "MemoryError"     -> <<"M","e","m","o","r","y","E","r","r","o","r">>
      [] name = "IOError"         -> <<"I","O","E","r","r","o","r">>
      [] name = "ConnectionError" -> <<"C","o","n","n","e","c","t","i","o","n","E","r","r","o","r">>
      [] name = "TimeoutError"    -> <<"T","i","m","e","o","u","t","E","r","r","o","r">>
      [] name = "InputError"      -> <<"I","n","p","u","t","E","r","r","o","r">>
      [] name = "PermissionError" -> <<"P","e","r","m","i","s","s","i","o","n","E","r","r","o","r">>
      [] name = "AccessError"     -> <<"A","c","c","e","s","s","E","r","r","o","r">>
      [] name = "Exception"       -> <<"E","x","c","e","p","t","i","o","n">>
      [] name = "CustomError"     -> <<"C","u","s","t","o","m","E","r","r","o","r">>
      [] name = "FileSystemError" -> <<"F","i","l","e","S","y","s","t","e","m","E","r","r","o","r">>
      [] name = "ValueErrorHandler" ->
             <<"V","a","l","u","e","E","r","r","o","r","H","a","n","d","l","e","r">>

\* str.endswith
EndsWith(s, suffix) ==
    /\ Len(suffix) <= Len(s)
    /\ SubSeq(s, Len(s) - Len(suffix) + 1, Len(s)) = suffix

\* self.error_categories, in the dict's insertion order
error_categories ==
    << [category |-> "system",     error_types |-> <<"SystemError", "MemoryError", "IOError">>],
       [category |-> "network",    error_types |-> <<"ConnectionError", "TimeoutError">>],
       [category |-> "user",       error_types |-> <<"ValueError", "InputError">>],
       [category |-> "permission", error_types |-> <<"PermissionError", "AccessError">>],
       [category |-> "unknown",    error_types |-> <<"Exception">>] >>

\* _categorize_error: the first category one of whose names the class name ends with
CategoryMatches(error_type, k) ==
    \E j \in 1..Len(error_categories[k].error_types) :
        EndsWith(Chars(error_type), Chars(error_categories[k].error_types[j]))

\* the lookup done with == in place of str.endswith
CategorizeExact(error_type) ==
    IF \E k \in 1..Len(error_categories) :
           \E j \in 1..Len(error_categories[k].error_types) :
               error_type = error_categories[k].error_types[j]
    THEN LET first == CHOOSE k \in 1..Len(error_categories) :
                          \E j \in 1..Len(error_categories[k].error_types) :
                              error_type = error_categories[k].error_types[j]
         IN  error_categories[first].category
    ELSE "unknown"

categorize_error(error_type) ==
    IF \E k \in 1..Len(error_categories) : CategoryMatches(error_type, k)
    THEN LET first == CHOOSE k \in 1..Len(error_categories) :
                          /\ CategoryMatches(error_type, k)
                          /\ \A m \in 1..(k - 1) : ~CategoryMatches(error_type, m)
         IN  error_categories[first].category
    ELSE "unknown"

\* strftime("%Y%m%d") of a clock value: the calendar day it falls in
DateOf(t) == t \div TicksPerDay

\* A day file: absent, holding a JSON array ("ok"), or opened for writing and
\* not yet written ("partial": truncated, not parseable).
NoFile == [st |-> "absent", data |-> <<>>]
FileAt(day) == IF day \in DOMAIN et_files THEN et_files[day] ELSE NoFile

NoLocal == [error_data |-> [timestamp |-> 0, type |-> "", category |-> ""],
            date_str |-> 0, errors |-> <<>>]

NoSummary == [period |-> 0, total_errors |-> 0, error_categories |-> <<>>,
              error_trends |-> <<>>]

ET_Init ==
    /\ et_clock = 0
    /\ et_files = [d \in Days |-> NoFile]
    /\ et_pc = [t \in Threads |-> "idle"]
    /\ et_local = [t \in Threads |-> NoLocal]
    /\ et_calls = [t \in Threads |-> 0]
    /\ et_logged = 0
    /\ et_summary = NoSummary
    /\ et_details = <<>>

\* track_error, lines 29-36: build error_data
ET_Begin(t, error_type) ==
    /\ OnlyErrorTracker
    /\ et_pc[t] = "idle"
    /\ et_calls[t] < MaxCalls
    /\ et_local' = [et_local EXCEPT ![t] =
           [NoLocal EXCEPT !.error_data =
               [timestamp |-> et_clock, type |-> error_type,
                category |-> categorize_error(error_type)]]]
    /\ et_pc' = [et_pc EXCEPT ![t] = "exists"]
    /\ UNCHANGED <<et_clock, et_files, et_calls, et_logged, et_summary, et_details>>

\* lines 39-47: name the day file, test error_file.exists()
ET_Exists(t) ==
    /\ OnlyErrorTracker
    /\ et_pc[t] = "exists"
    /\ LET day == DateOf(et_clock) IN
        /\ et_local' = [et_local EXCEPT ![t].date_str = day, ![t].errors = <<>>]
        /\ et_pc' = [et_pc EXCEPT ![t] =
               IF FileAt(day).st = "absent" THEN "open_w" ELSE "load"]
    /\ UNCHANGED <<et_clock, et_files, et_calls, et_logged, et_summary, et_details>>

\* lines 44-45 and 49: json.load of the day file, then errors.append; a file
\* that is not parseable raises, and the handler at lines 57-58 logs and returns
ET_Load(t) ==
    /\ OnlyErrorTracker
    /\ et_pc[t] = "load"
    /\ LET f == FileAt(et_local[t].date_str) IN
        IF f.st = "ok"
        THEN /\ et_local' = [et_local EXCEPT ![t].errors = f.data]
             /\ et_pc' = [et_pc EXCEPT ![t] = "open_w"]
             /\ UNCHANGED <<et_calls, et_logged>>
        ELSE /\ et_logged' = et_logged + 1
             /\ et_calls' = [et_calls EXCEPT ![t] = @ + 1]
             /\ et_pc' = [et_pc EXCEPT ![t] = "idle"]
             /\ et_local' = [et_local EXCEPT ![t] = NoLocal]
    /\ UNCHANGED <<et_clock, et_files, et_summary, et_details>>

\* line 52: open(error_file, 'w') creates or truncates the file
ET_OpenW(t) ==
    /\ OnlyErrorTracker
    /\ et_pc[t] = "open_w"
    /\ et_files' = [et_files EXCEPT ![et_local[t].date_str] =
                        [st |-> "partial", data |-> <<>>]]
    /\ et_pc' = [et_pc EXCEPT ![t] = "dump"]
    /\ UNCHANGED <<et_clock, et_local, et_calls, et_logged, et_summary, et_details>>

\* lines 49-55: json.dump(errors + [error_data]), close, return
ET_Dump(t) ==
    /\ OnlyErrorTracker
    /\ et_pc[t] = "dump"
    /\ et_files' = [et_files EXCEPT ![et_local[t].date_str] =
           [st |-> "ok", data |-> Append(et_local[t].errors, et_local[t].error_data)]]
    /\ et_calls' = [et_calls EXCEPT ![t] = @ + 1]
    /\ et_pc' = [et_pc EXCEPT ![t] = "idle"]
    /\ et_local' = [et_local EXCEPT ![t] = NoLocal]
    /\ UNCHANGED <<et_clock, et_logged, et_summary, et_details>>

\* lines 52-53 and 57-58: json.dump raises (the context holds a value json
\* cannot serialize, or the write fails) after open(error_file, 'w') has
\* truncated the file; the handler logs and the call returns
ET_DumpFails(t) ==
    /\ OnlyErrorTracker
    /\ et_pc[t] = "dump"
    /\ et_logged' = et_logged + 1
    /\ et_calls' = [et_calls EXCEPT ![t] = @ + 1]
    /\ et_pc' = [et_pc EXCEPT ![t] = "idle"]
    /\ et_local' = [et_local EXCEPT ![t] = NoLocal]
    /\ UNCHANGED <<et_clock, et_files, et_summary, et_details>>

\* time passes
ET_Tick ==
    /\ OnlyErrorTracker
    /\ et_clock < MaxClock
    /\ et_clock' = et_clock + 1
    /\ UNCHANGED <<et_files, et_pc, et_local, et_calls, et_logged, et_summary, et_details>>

\* get_error_summary, lines 83-112: the records the loop counts.  The loop
\* visits start_date + 0 .. start_date + (days - 1) days; a file that cannot
\* be parsed is logged and skipped (lines 111-112).
RECURSIVE ScannedErrors(_, _)
ScannedErrors(start_date, n) ==
    IF n = 0 THEN <<>>
    ELSE LET date == start_date + (n - 1) * TicksPerDay
             f    == FileAt(DateOf(date))
             IsRecent(e) == e.timestamp >= start_date
         IN  ScannedErrors(start_date, n - 1)
                 \o (IF f.st = "ok" THEN SelectSeq(f.data, IsRecent) ELSE <<>>)

\* summary["error_categories"]: category |-> count, for the categories counted
CategoryCounts(errors) ==
    LET cats == {errors[i].category : i \in 1..Len(errors)}
        Of(c) == LET Is(e) == e.category = c IN Len(SelectSeq(errors, Is))
    IN  [c \in cats |-> Of(c)]

ErrorSummary(now, days) ==
    LET start_date == now - days * TicksPerDay
        counted == ScannedErrors(start_date, days)
    IN  [period |-> days,
         total_errors |-> Len(counted),
         error_categories |-> CategoryCounts(counted),
         error_trends |-> counted]

\* get_error_summary(days), called by the thread t between its track_error calls
ET_get_error_summary(t, days) ==
    /\ OnlyErrorTracker
    /\ et_pc[t] = "idle"
    /\ et_summary' = ErrorSummary(et_clock, days)
    /\ UNCHANGED <<et_clock, et_files, et_pc, et_local, et_calls, et_logged, et_details>>

\* the default window of get_error_details, lines 136-137
DefaultDetailDays == 7

\* get_error_details, lines 146-162: the records of one day file that pass the
\* filters; an absent or unparseable file gives none
DetailsOf(file, error_type, category, start_date, end_date) ==
    LET Passes(error) ==
            /\ ~(error.timestamp < start_date \/ error.timestamp > end_date)
            /\ ~(error_type # "" /\ error.type # error_type)
            /\ ~(category # "" /\ error.category # category)
    IN  IF file.st = "ok" THEN SelectSeq(file.data, Passes) ELSE <<>>

\* lines 140-166: the loop starts at start_date itself and adds one day per
\* round while current_date <= end_date; each round reads the file of the
\* calendar day current_date falls in
RECURSIVE DetailsFrom(_, _, _, _, _)
DetailsFrom(current_date, error_type, category, start_date, end_date) ==
    IF current_date <= end_date
    THEN DetailsOf(FileAt(DateOf(current_date)), error_type, category,
                   start_date, end_date)
         \o DetailsFrom(current_date + TicksPerDay, error_type, category,
                        start_date, end_date)
    ELSE <<>>

\* the window the call works with, lines 135-138
DetailsStart(now, start_date) ==
    IF start_date = None THEN now - DefaultDetailDays * TicksPerDay ELSE start_date

DetailsEnd(now, end_date) == IF end_date = None THEN now ELSE end_date

\* get_error_details(error_type, category, start_date, end_date), called by
\* the thread t between its track_error calls; "" stands for a filter that is
\* None or empty
ET_get_error_details(t, error_type, category, start_date, end_date) ==
    /\ OnlyErrorTracker
    /\ et_pc[t] = "idle"
    /\ et_details' = DetailsFrom(DetailsStart(et_clock, start_date), error_type, category,
                                 DetailsStart(et_clock, start_date),
                                 DetailsEnd(et_clock, end_date))
    /\ UNCHANGED <<et_clock, et_files, et_pc, et_local, et_calls, et_logged, et_summary>>

\* the filters and dates get_error_details is called with
TypeFilters == {"", "ValueError"}
CategoryFilters == {"", "user", "system"}
DetailDates == {None} \cup (0..MaxClock)

ET_track_error(t) ==
    \/ \E error_type \in ErrorNames : ET_Begin(t, error_type)
    \/ ET_Exists(t)
    \/ ET_Load(t)
    \/ ET_OpenW(t)
    \/ ET_Dump(t)

\* One caller that tracks errors and asks for their details as time passes
ED_Next ==
    \/ ET_track_error(1)
    \/ \E error_type \in TypeFilters, category \in CategoryFilters,
          start_date \in DetailDates, end_date \in DetailDates :
           ET_get_error_details(1, error_type, category, start_date, end_date)
    \/ ET_Tick

\* Exception class names a caller can raise: the names of the table, names
\* that end with one of them, and names that do not
ClassNames ==
    {"ValueError", "SystemError", "KeyError", "MemoryError", "IOError",
     "ConnectionError", "TimeoutError", "InputError", "PermissionError", "AccessError",
     "Exception", "CustomError", "FileSystemError", "ValueErrorHandler"}

\* One caller that tracks errors of any class
CT_Next ==
    \/ \E error_type \in ClassNames : ET_Begin(1, error_type)
    \/ ET_Exists(1)
    \/ ET_Load(1)
    \/ ET_OpenW(1)
    \/ ET_Dump(1)

\* One caller tracking errors, some of which cannot be written
EF_Next ==
    \/ \E error_type \in ErrorNames : ET_Begin(1, error_type)
    \/ ET_Exists(1)
    \/ ET_Load(1)
    \/ ET_OpenW(1)
    \/ ET_Dump(1)
    \/ ET_DumpFails(1)
    \/ ET_Tick

\* ---------------------------------------------------------- SystemMonitor
\* What psutil can report in one sample: cpu, memory and disk percent
Readings == { [cpu |-> 10, memory |-> 20, disk |-> 30],
              [cpu |-> 90, memory |-> 95, disk |-> 95] }

\* The cap of the response_times list (record_response_time)
ResponseTimesCap == 100

\* The threads a SystemMonitor can have created: two per start_monitoring call
ThreadIds == 1..(2 * MaxStarts)

KeepAll(response_times) == response_times

\* if len(response_times) > 100: response_times.pop(0)
KeepRecent(response_times) ==
    IF Len(response_times) > ResponseTimesCap THEN Tail(response_times)
    ELSE response_times

\* response_times after the calls record_response_time(first), ...,
\* record_response_time(last), made one after the other
RECURSIVE SM_RecordAll(_, _, _)
SM_RecordAll(response_times, first, last) ==
    IF first > last THEN response_times
    ELSE IF first = last THEN KeepRecent(Append(response_times, first))
    ELSE LET mid == (first + last) \div 2
             recorded == SM_RecordAll(response_times, first, mid)
         IN  \* the test has the first half evaluated before the second starts
             IF Len(recorded) = 0 THEN recorded
             ELSE SM_RecordAll(recorded, mid + 1, last)

\* response_times after n record_response_time calls, the k-th passing k
SM_ResponseTimesAfter(n) == SM_RecordAll(<<>>, 1, n)

\* A SystemMonitor after construction and n record_response_time calls
SM_InitAfter(n) ==
    /\ sm_clock = 0
    /\ sm_running = FALSE
    /\ sm_threads = <<>>
    /\ sm_monitor_thread = 0
    /\ sm_logging_thread = 0
    /\ sm_current_metrics = [cpu_usage |-> 0, memory_usage |-> 0, disk_usage |-> 0,
                             response_times |-> SM_ResponseTimesAfter(n),
                             error_count |-> 0, timestamp |-> -1]
    /\ sm_queue = <<>>
    /\ sm_files = <<>>
    /\ sm_caller = "idle"
    /\ sm_result = "none"
    /\ sm_starts = 0
    /\ sm_samples = 0
    /\ sm_recorded = [k \in 1..n |-> k]
    /\ sm_snapshots = <<>>
    /\ sm_errors_json = [st |-> "absent", data |-> <<>>]
    /\ sm_error_lines = 0
    /\ sm_error_rate = None
    /\ sm_average = <<>>

SM_Init == SM_InitAfter(0)

\* start_monitoring: sets running and starts two new threads, whatever the
\* monitor's state
SM_start_monitoring ==
    /\ OnlySystemMonitor
    /\ UNCHANGED <<sm_recorded, sm_aux>>
    /\ sm_caller = "idle"
    /\ sm_starts < MaxStarts
    /\ sm_running' = TRUE
    /\ sm_threads' = sm_threads \o << [target |-> "_monitor_system", pc |-> "check"],
                                      [target |-> "_log_metrics", pc |-> "check"] >>
    /\ sm_monitor_thread' = Len(sm_threads) + 1
    /\ sm_logging_thread' = Len(sm_threads) + 2
    /\ sm_result' = "started"
    /\ sm_starts' = sm_starts + 1
    /\ UNCHANGED <<sm_clock, sm_current_metrics, sm_queue, sm_files, sm_caller, sm_samples>>

\* stop_monitoring, line 52, up to the first join; without a monitor_thread
\* attribute line 53 raises AttributeError
SM_stop_begin ==
    /\ OnlySystemMonitor
    /\ UNCHANGED <<sm_recorded, sm_aux>>
    /\ sm_caller = "idle"
    /\ sm_running' = FALSE
    /\ IF sm_monitor_thread = 0
       THEN sm_result' = "AttributeError" /\ UNCHANGED sm_caller
       ELSE sm_caller' = "join_monitor" /\ sm_result' = "stopping"
    /\ UNCHANGED <<sm_clock, sm_threads, sm_monitor_thread, sm_logging_thread,
                   sm_current_metrics, sm_queue, sm_files, sm_starts, sm_samples>>

\* A join that does not wait for the thread
JoinedWithoutWaiting(tid) == tid \in DOMAIN sm_threads

\* Thread.join returns once the thread has terminated
Joined(tid) == sm_threads[tid].pc = "done"

\* line 53: self.monitor_thread.join()
SM_stop_join_monitor ==
    /\ OnlySystemMonitor
    /\ UNCHANGED <<sm_recorded, sm_aux>>
    /\ sm_caller = "join_monitor"
    /\ Joined(sm_monitor_thread)
    /\ sm_caller' = "join_logging"
    /\ UNCHANGED <<sm_clock, sm_running, sm_threads, sm_monitor_thread, sm_logging_thread,
                   sm_current_metrics, sm_queue, sm_files, sm_result, sm_starts, sm_samples>>

\* lines 54-55: self.logging_thread.join(), return
SM_stop_join_logging ==
    /\ OnlySystemMonitor
    /\ UNCHANGED <<sm_recorded, sm_aux>>
    /\ sm_caller = "join_logging"
    /\ Joined(sm_logging_thread)
    /\ sm_caller' = "idle"
    /\ sm_result' = "stopped"
    /\ UNCHANGED <<sm_clock, sm_running, sm_threads, sm_monitor_thread, sm_logging_thread,
                   sm_current_metrics, sm_queue, sm_files, sm_starts, sm_samples>>

\* `while self.running:` in either loop
SM_loop_check(tid) ==
    /\ OnlySystemMonitor
    /\ UNCHANGED <<sm_recorded, sm_aux>>
    /\ tid \in DOMAIN sm_threads
    /\ sm_threads[tid].pc = "check"
    /\ sm_threads' = [sm_threads EXCEPT ![tid].pc = IF sm_running THEN "body" ELSE "done"]
    /\ UNCHANGED <<sm_clock, sm_running, sm_monitor_thread, sm_logging_thread,
                   sm_current_metrics, sm_queue, sm_files, sm_caller, sm_result,
                   sm_starts, sm_samples>>

\* _monitor_system, lines 61-83: one sample, stored and queued, then the sleep
SM_sample(tid, reading) ==
    /\ OnlySystemMonitor
    /\ UNCHANGED <<sm_recorded, sm_aux>>
    /\ tid \in DOMAIN sm_threads
    /\ sm_threads[tid].target = "_monitor_system"
    /\ sm_threads[tid].pc = "body"
    /\ sm_samples < MaxSamples
    /\ LET updated == [sm_current_metrics EXCEPT !.timestamp = sm_clock,
                                                 !.cpu_usage = reading.cpu,
                                                 !.memory_usage = reading.memory,
                                                 !.disk_usage = reading.disk]
       IN  /\ sm_current_metrics' = updated
           /\ sm_queue' = Append(sm_queue, updated)
    /\ sm_samples' = sm_samples + 1
    /\ sm_threads' = [sm_threads EXCEPT ![tid].pc = "check"]
    /\ UNCHANGED <<sm_clock, sm_running, sm_monitor_thread, sm_logging_thread, sm_files,
                   sm_caller, sm_result, sm_starts>>

\* a psutil failure that is not caught inside the loop and ends the thread
SM_sample_ends_thread(tid) ==
    /\ OnlySystemMonitor
    /\ UNCHANGED <<sm_recorded, sm_aux>>
    /\ tid \in DOMAIN sm_threads
    /\ sm_threads[tid].target = "_monitor_system"
    /\ sm_threads[tid].pc = "body"
    /\ sm_threads' = [sm_threads EXCEPT ![tid].pc = "done"]
    /\ UNCHANGED <<sm_clock, sm_running, sm_monitor_thread, sm_logging_thread,
                   sm_current_metrics, sm_queue, sm_files, sm_caller, sm_result,
                   sm_starts, sm_samples>>

\* _monitor_system, lines 85-87: a psutil call raises; logged, sleep, loop again
SM_sample_fails(tid) ==
    /\ OnlySystemMonitor
    /\ UNCHANGED <<sm_recorded, sm_aux>>
    /\ tid \in DOMAIN sm_threads
    /\ sm_threads[tid].target = "_monitor_system"
    /\ sm_threads[tid].pc = "body"
    /\ sm_threads' = [sm_threads EXCEPT ![tid].pc = "check"]
    /\ UNCHANGED <<sm_clock, sm_running, sm_monitor_thread, sm_logging_thread,
                   sm_current_metrics, sm_queue, sm_files, sm_caller, sm_result,
                   sm_starts, sm_samples>>

\* open(log_file, 'w') on system_metrics_<timestamp>.json: a file of that
\* second is replaced
WriteLog(files, timestamp, metrics_list) ==
    LET Other(f) == f.timestamp # timestamp
    IN  Append(SelectSeq(files, Other), [timestamp |-> timestamp, metrics |-> metrics_list])

\* _log_metrics, lines 93-108: drain the queue into one file, then the sleep
SM_log_metrics(tid) ==
    /\ OnlySystemMonitor
    /\ UNCHANGED <<sm_recorded, sm_aux>>
    /\ tid \in DOMAIN sm_threads
    /\ sm_threads[tid].target = "_log_metrics"
    /\ sm_threads[tid].pc = "body"
    /\ sm_queue' = <<>>
    /\ sm_files' = IF sm_queue # <<>> THEN WriteLog(sm_files, sm_clock, sm_queue)
                   ELSE sm_files
    /\ sm_threads' = [sm_threads EXCEPT ![tid].pc = "check"]
    /\ UNCHANGED <<sm_clock, sm_running, sm_monitor_thread, sm_logging_thread,
                   sm_current_metrics, sm_caller, sm_result, sm_starts, sm_samples>>

\* record_response_time: append, and drop the oldest beyond the cap
SM_record_response_time(response_time) ==
    /\ OnlySystemMonitor
    /\ UNCHANGED sm_aux
    /\ sm_recorded' = Append(sm_recorded, response_time)
    /\ sm_current_metrics' = [sm_current_metrics EXCEPT !.response_times =
           KeepRecent(Append(sm_current_metrics.response_times, response_time))]
    /\ UNCHANGED <<sm_clock, sm_running, sm_threads, sm_monitor_thread, sm_logging_thread,
                   sm_queue, sm_files, sm_caller, sm_result, sm_starts, sm_samples>>

\* the list object current_metrics["response_times"] refers to: __init__
\* creates it, record_response_time appends to it and pops from it in place,
\* and nothing ever assigns the key again
ResponseTimesList == "current_metrics.response_times"

\* dict.copy(): a new dict with the same values; a value that is a list is the
\* same list object in both dicts
ShallowCopy(metrics) == [metrics EXCEPT !.response_times = ResponseTimesList]

\* what a dict returned by get_current_metrics shows when it is read
Deref(snapshot) ==
    [snapshot EXCEPT !.response_times = sm_current_metrics.response_times]

\* get_current_metrics: return self.current_metrics.copy().  A snapshot keeps
\* the returned dict and, as history, what it showed when it was returned.
SM_get_current_metrics ==
    /\ OnlySystemMonitor
    /\ sm_snapshots' = Append(sm_snapshots,
           [dict |-> ShallowCopy(sm_current_metrics), returned |-> sm_current_metrics])
    /\ UNCHANGED <<sm_vars, sm_recorded, sm_errors_json, sm_error_lines, sm_error_rate,
                   sm_average>>

\* record_error: the counter goes up, then errors.json is read, extended and
\* rewritten inside a try whose except logs
SM_record_error(error_type, outcome) ==
    /\ OnlySystemMonitor
    /\ sm_current_metrics' = [sm_current_metrics EXCEPT !.error_count = @ + 1]
    /\ LET error_log == [timestamp |-> sm_clock, type |-> error_type]
           errors == IF sm_errors_json.st = "absent" THEN <<>> ELSE sm_errors_json.data
       IN  CASE sm_errors_json.st = "partial" \/ outcome = "read_fails" ->
                   \* json.load raises on a file that is not JSON
                   /\ sm_error_lines' = sm_error_lines + 1
                   /\ UNCHANGED sm_errors_json
             [] outcome = "write_fails" ->
                   /\ sm_errors_json' = [st |-> "partial", data |-> <<>>]
                   /\ sm_error_lines' = sm_error_lines + 1
             [] OTHER ->
                   /\ sm_errors_json' = [st |-> "ok", data |-> Append(errors, error_log)]
                   /\ UNCHANGED sm_error_lines
    /\ UNCHANGED <<sm_clock, sm_running, sm_threads, sm_monitor_thread, sm_logging_thread,
                   sm_queue, sm_files, sm_caller, sm_result, sm_starts, sm_samples,
                   sm_recorded, sm_snapshots, sm_error_rate, sm_average>>

\* sum(times)
RECURSIVE SumSeq(_)
SumSeq(times) == IF times = <<>> THEN 0 ELSE Head(times) + SumSeq(Tail(times))

\* sum(times) / len(times) evaluated whatever the list holds
AverageUnguarded(times) ==
    IF Len(times) = 0 THEN [raised |-> "ZeroDivisionError", value |-> Frac(0, 1)]
    ELSE [raised |-> "none", value |-> Frac(SumSeq(times), Len(times))]

\* get_average_response_time, lines 153-154: sum(times) / len(times) if times
\* else 0; the quotient is kept exact
AverageResponseTime(times) ==
    IF Len(times) > 0
    THEN [raised |-> "none", value |-> Frac(SumSeq(times), Len(times))]
    ELSE [raised |-> "none", value |-> Frac(0, 1)]

SM_get_average_response_time ==
    /\ OnlySystemMonitor
    /\ sm_average' = <<AverageResponseTime(sm_current_metrics.response_times)>>
    /\ UNCHANGED <<sm_vars, sm_recorded, sm_snapshots, sm_errors_json, sm_error_lines,
                   sm_error_rate>>

\* A caller recording the response time of each request and asking for the
\* average; the k-th call passes k
AV_Next ==
    \/ /\ Len(sm_recorded) < ResponseTimesCap + MaxOverflow
       /\ SM_record_response_time(Len(sm_recorded) + 1)
    \/ SM_get_average_response_time

\* the window of get_error_rate, line 169, in seconds
SecondsPerHour == 3600

\* the longest time the clock is moved forward in whole hours
MaxHours == 2

\* get_error_rate served from the in-memory counter
ErrorRateFromCounter(metrics, file, now) == metrics.error_count

\* get_error_rate, lines 158-177: 0.0 when errors.json is absent or cannot be
\* parsed, else the number of its records with timestamp > now - 3600
ErrorRate(metrics, file, now) ==
    LET hour_ago == now - SecondsPerHour
        IsRecent(e) == e.timestamp > hour_ago
    IN  IF file.st = "ok" THEN Len(SelectSeq(file.data, IsRecent)) ELSE 0

SM_get_error_rate ==
    /\ OnlySystemMonitor
    /\ sm_error_rate' = ErrorRate(sm_current_metrics, sm_errors_json, sm_clock)
    /\ sm_error_lines' = IF sm_errors_json.st = "partial"
                         THEN sm_error_lines + 1 ELSE sm_error_lines
    /\ UNCHANGED <<sm_vars, sm_recorded, sm_snapshots, sm_errors_json, sm_average>>

\* an hour passes
SM_HourPasses ==
    /\ OnlySystemMonitor
    /\ sm_clock < MaxHours * SecondsPerHour
    /\ sm_clock' = sm_clock + SecondsPerHour
    /\ UNCHANGED <<sm_running, sm_threads, sm_monitor_thread, sm_logging_thread,
                   sm_current_metrics, sm_queue, sm_files, sm_caller, sm_result,
                   sm_starts, sm_samples, sm_recorded, sm_aux>>

SM_Tick ==
    /\ OnlySystemMonitor
    /\ UNCHANGED <<sm_recorded, sm_aux>>
    /\ sm_clock < MaxSeconds
    /\ sm_clock' = sm_clock + 1
    /\ UNCHANGED <<sm_running, sm_threads, sm_monitor_thread, sm_logging_thread,
                   sm_current_metrics, sm_queue, sm_files, sm_caller, sm_result,
                   sm_starts, sm_samples>>

\* calls of record_error made on one SystemMonitor
MaxErrors == 3

\* get_error_rate is no longer called once this many error lines are logged
MaxErrorLines == 3

\* A SystemMonitor whose caller records errors and asks for the error rate as
\* time passes
ER_Next ==
    \/ /\ sm_current_metrics.error_count < MaxErrors
       /\ \E outcome \in {"ok", "read_fails", "write_fails"} :
              SM_record_error("ValueError", outcome)
    \/ sm_error_lines < MaxErrorLines /\ SM_get_error_rate
    \/ SM_Tick
    \/ SM_HourPasses

SM_thread_step(tid) ==
    \/ SM_loop_check(tid)
    \/ \E reading \in Readings : SM_sample(tid, reading)
    \/ SM_sample_fails(tid)
    \/ SM_log_metrics(tid)

\* One caller starting and stopping the monitor, and the monitor's threads
SM_Next ==
    \/ SM_start_monitoring
    \/ SM_stop_begin
    \/ SM_stop_join_monitor
    \/ SM_stop_join_logging
    \/ \E tid \in ThreadIds : SM_thread_step(tid)
    \/ SM_Tick

\* --------------------------------------------------------- UsageAnalytics
\* Arguments tried: record_command takes any string as command_type
CommandTypes == {"voice", "text", "gesture"}
FeatureNames == {"voice_control", "search"}

\* The fresh current_session of __init__ and of save_session's reset;
\* is_defaultdict tells features_used is a defaultdict(int)
FreshSession(now) ==
    [start_time |-> now, commands |-> <<>>, features_used |-> <<>>,
     is_defaultdict |-> TRUE, voice_commands |-> 0, text_commands |-> 0,
     successful_commands |-> 0, failed_commands |-> 0,
     end_time |-> -1, duration |-> -1]

\* no generate_report call made yet
NoReport == [period |-> 0]

\* The object after construction, on a directory holding these files
UA_InitOn(files) ==
    /\ ua_clock = 0
    /\ ua_session = FreshSession(0)
    /\ ua_files = files
    /\ ua_saves = 0
    /\ ua_logged = 0
    /\ ua_ops = 0
    /\ ua_raised = "none"
    /\ ua_report = NoReport
    /\ ua_report_lines = <<>>

UA_Init == UA_InitOn(<<>>)

\* A record_command that counts only the successes
RecordCommandSuccessOnly(session, now, command_type, command, success, duration) ==
    [session EXCEPT
        !.commands = Append(@, [timestamp |-> now, type |-> command_type,
                                command |-> command, success |-> success,
                                duration |-> duration]),
        !.voice_commands = IF command_type = "voice" THEN @ + 1 ELSE @,
        !.text_commands = IF command_type = "text" THEN @ + 1 ELSE @,
        !.successful_commands = IF success THEN @ + 1 ELSE @]

\* record_command, lines 29-48: the session after the call
RecordCommand(session, now, command_type, command, success, duration) ==
    [session EXCEPT
        !.commands = Append(@, [timestamp |-> now, type |-> command_type,
                                command |-> command, success |-> success,
                                duration |-> duration]),
        !.voice_commands = IF command_type = "voice" THEN @ + 1 ELSE @,
        !.text_commands = IF command_type = "text" THEN @ + 1 ELSE @,
        !.successful_commands = IF success THEN @ + 1 ELSE @,
        !.failed_commands = IF success THEN @ ELSE @ + 1]

UA_record_command(command_type, command, success, duration) ==
    /\ OnlyUsageAnalytics
    /\ UNCHANGED ua_rep
    /\ ua_ops < MaxOps
    /\ ua_session' = RecordCommand(ua_session, ua_clock, command_type, command,
                                   success, duration)
    /\ ua_ops' = ua_ops + 1
    /\ ua_raised' = "none"
    /\ UNCHANGED <<ua_clock, ua_files, ua_saves, ua_logged>>

\* record_feature_usage: features_used[feature_name] += 1; on a plain dict a
\* name not yet present raises KeyError
UA_record_feature_usage(feature_name) ==
    /\ OnlyUsageAnalytics
    /\ UNCHANGED ua_rep
    /\ ua_ops < MaxOps
    /\ ua_ops' = ua_ops + 1
    /\ IF feature_name \in DOMAIN ua_session.features_used
       THEN /\ ua_session' = [ua_session EXCEPT !.features_used[feature_name] = @ + 1]
            /\ ua_raised' = "none"
       ELSE IF ua_session.is_defaultdict
       THEN /\ ua_session' = [ua_session EXCEPT !.features_used =
                   [x \in DOMAIN ua_session.features_used \cup {feature_name} |->
                       IF x = feature_name THEN 1 ELSE ua_session.features_used[x]]]
            /\ ua_raised' = "none"
       ELSE /\ ua_raised' = "KeyError"
            /\ UNCHANGED ua_session
    /\ UNCHANGED <<ua_clock, ua_files, ua_saves, ua_logged>>

\* strftime("%Y%m%d_%H%M%S") of a clock value: the second it falls in
SessionFileName(t) == t \div TicksPerSecond

\* save_session, lines 57-66: end_time, duration, features_used as a plain dict
ClosedSession(session, now) ==
    [session EXCEPT !.end_time = now, !.duration = now - session.start_time,
                    !.is_defaultdict = FALSE]

\* A dump that leaves the commands out
SessionJsonNoCommands(session) ==
    [start_time |-> session.start_time, end_time |-> session.end_time,
     duration |-> session.duration, commands |-> <<>>,
     features_used |-> session.features_used,
     voice_commands |-> session.voice_commands,
     text_commands |-> session.text_commands,
     successful_commands |-> session.successful_commands,
     failed_commands |-> session.failed_commands]

\* json.dump(self.current_session): the keys and values the file holds
SessionJson(session) ==
    [start_time |-> session.start_time, end_time |-> session.end_time,
     duration |-> session.duration, commands |-> session.commands,
     features_used |-> session.features_used,
     voice_commands |-> session.voice_commands,
     text_commands |-> session.text_commands,
     successful_commands |-> session.successful_commands,
     failed_commands |-> session.failed_commands]

\* open(path, 'w') followed by a write: the directory afterwards
PutFile(files, name, contents) ==
    [n \in DOMAIN files \cup {name} |-> IF n = name THEN contents ELSE files[n]]

\* save_session.  outcome "ok": the file is written and the session reset;
\* "dump_fails": json.dump raises after open(session_file, 'w') created or
\* truncated the file; the failure is caught and logged (lines 86-87) and the
\* session keeps the changes of lines 57-66.
\* what save_session returns: the function has no return statement, and the
\* except clause of lines 86-87 ends it normally as well
SaveSessionReturn(outcome) ==
    CASE outcome = "ok" -> "None"
      [] outcome = "dump_fails" -> "None"

UA_save_session(outcome) ==
    /\ OnlyUsageAnalytics
    /\ UNCHANGED ua_rep
    /\ ua_ops < MaxOps
    /\ ua_ops' = ua_ops + 1
    /\ LET closed == ClosedSession(ua_session, ua_clock)
           name   == SessionFileName(ua_clock)
       IN  CASE outcome = "ok" ->
                  /\ ua_files' = PutFile(ua_files, name,
                                         [st |-> "ok", data |-> SessionJson(closed)])
                  /\ ua_session' = FreshSession(ua_clock)
                  /\ ua_saves' = ua_saves + 1
                  /\ UNCHANGED ua_logged
             [] outcome = "dump_fails" ->
                  /\ ua_files' = PutFile(ua_files, name, [st |-> "partial"])
                  /\ ua_session' = closed
                  /\ ua_logged' = ua_logged + 1
                  /\ UNCHANGED ua_saves
    /\ ua_raised' = "none"
    /\ UNCHANGED ua_clock

UA_Tick ==
    /\ OnlyUsageAnalytics
    /\ UNCHANGED ua_rep
    /\ ua_clock < MaxTicks
    /\ ua_clock' = ua_clock + 1
    /\ UNCHANGED <<ua_session, ua_files, ua_saves, ua_logged, ua_ops, ua_raised>>

\* ---- generate_report
\* d[key] += by, on a dict that starts the key at 0
Inc(d, key, by) ==
    [k \in DOMAIN d \cup {key} |->
        IF k = key THEN (IF key \in DOMAIN d THEN d[key] ELSE 0) + by ELSE d[k]]

\* the report generate_report starts from
ZeroReport(days) ==
    [period |-> days, total_sessions |-> 0, total_commands |-> 0,
     voice_commands |-> 0, text_commands |-> 0, success_rate |-> Frac(0, 1),
     average_session_duration |-> Frac(0, 1), most_used_features |-> <<>>,
     daily_usage |-> <<>>, peak_usage_hours |-> <<>>]

\* datetime.hour of a clock value: its place within the day
HourOf(t) == t % TicksPerDay

\* lines 112-124 for one file: json.load, session["start_time"] and
\* fromisoformat succeed
Loads(file) == file.st = "ok" /\ "start_time" \in DOMAIN file.data

\* the window of line 117 taken without its first instant
RECURSIVE SessionsDataStrict(_, _, _)
SessionsDataStrict(files, names, start_date) ==
    IF names = {} THEN <<>>
    ELSE LET name == CHOOSE n \in names : \A m \in names : n <= m
             rest == SessionsDataStrict(files, names \ {name}, start_date)
         IN  IF Loads(files[name]) /\ files[name].data.start_time > start_date
             THEN <<files[name].data>> \o rest
             ELSE rest

\* lines 108-124: the sessions of the directory, in the order of the file
\* names, that load and start at or after start_date
RECURSIVE SessionsData(_, _, _)
SessionsData(files, names, start_date) ==
    IF names = {} THEN <<>>
    ELSE LET name == CHOOSE n \in names : \A m \in names : n <= m
             rest == SessionsData(files, names \ {name}, start_date)
         IN  IF Loads(files[name]) /\ files[name].data.start_time >= start_date
             THEN <<files[name].data>> \o rest
             ELSE rest

\* the files that raise inside the inner try, each logged
Unreadable(files) == {name \in DOMAIN files : ~Loads(files[name])}

RECURSIVE AddFeatures(_, _, _)
AddFeatures(most_used, features_used, names) ==
    IF names = {} THEN most_used
    ELSE LET feature == CHOOSE n \in names : TRUE
         IN  AddFeatures(Inc(most_used, feature, features_used[feature]),
                         features_used, names \ {feature})

\* lines 131-158 for one session: the report after the body of the loop, and
\* whether a missing key raised on the way; the updates made before the key
\* was looked up stay in the report
AddSession(report, session) ==
    LET has(key) == key \in DOMAIN session
        r1 == [report EXCEPT !.total_commands = @ + Len(session.commands)]
        r2 == [r1 EXCEPT !.voice_commands = @ + session.voice_commands]
        r3 == [r2 EXCEPT !.text_commands = @ + session.text_commands]
        total_commands == session.successful_commands + session.failed_commands
        r4 == IF total_commands > 0
              THEN [r3 EXCEPT !.success_rate =
                       FracAdd(@, Frac(session.successful_commands, total_commands))]
              ELSE r3
        r5 == [r4 EXCEPT !.average_session_duration =
                   FracAdd(@, Frac(session.duration, 1))]
        r6 == [r5 EXCEPT !.most_used_features =
                   AddFeatures(@, session.features_used, DOMAIN session.features_used)]
        r7 == [r6 EXCEPT !.daily_usage = Inc(@, DateOf(session.start_time), 1),
                         !.peak_usage_hours = Inc(@, HourOf(session.start_time), 1)]
    IN  IF ~has("commands") THEN [report |-> report, raised |-> TRUE]
        ELSE IF ~has("voice_commands") THEN [report |-> r1, raised |-> TRUE]
        ELSE IF ~has("text_commands") THEN [report |-> r2, raised |-> TRUE]
        ELSE IF ~has("successful_commands") \/ ~has("failed_commands")
             THEN [report |-> r3, raised |-> TRUE]
        ELSE IF ~has("duration") THEN [report |-> r4, raised |-> TRUE]
        ELSE IF ~has("features_used") THEN [report |-> r5, raised |-> TRUE]
        ELSE [report |-> r7, raised |-> FALSE]

\* the loop of lines 131-158, stopped by the first session that raises
RECURSIVE AddSessions(_, _)
AddSessions(report, sessions) ==
    IF sessions = <<>> THEN [report |-> report, raised |-> FALSE]
    ELSE LET added == AddSession(report, Head(sessions))
         IN  IF added.raised THEN added ELSE AddSessions(added.report, Tail(sessions))

\* the sums of lines 141 and 144 left undivided
NotAveraged(report) == report

\* the averages of lines 160-162, taken over total_sessions
Averaged(report) ==
    [report EXCEPT
        !.success_rate = FracOver(@, report.total_sessions),
        !.average_session_duration = FracOver(@, report.total_sessions)]

\* generate_report(days): what it returns.  An exception in the aggregation
\* reaches the outer except, which returns the report as far as it was filled.
\* most_used_features is kept as a mapping: with fewer than ten feature names
\* the cut to the first ten drops none.
GenerateReport(files, now, days) ==
    LET start_date == now - days * TicksPerDay
        sessions_data == SessionsData(files, DOMAIN files, start_date)
        counted == [ZeroReport(days) EXCEPT !.total_sessions = Len(sessions_data)]
        summed == AddSessions(counted, sessions_data)
    IN  IF sessions_data = <<>> THEN ZeroReport(days)
        ELSE IF summed.raised THEN summed.report
        ELSE Averaged(summed.report)

\* the error lines one generate_report call logs
ReportLines(files, now, days) ==
    LET start_date == now - days * TicksPerDay
        sessions_data == SessionsData(files, DOMAIN files, start_date)
        counted == [ZeroReport(days) EXCEPT !.total_sessions = Len(sessions_data)]
    IN  [name \in 1..Cardinality(Unreadable(files)) |-> "Error reading session file"]
        \o (IF AddSessions(counted, sessions_data).raised
            THEN <<"Error generating report">> ELSE <<>>)

UA_generate_report(days) ==
    /\ OnlyUsageAnalytics
    /\ ua_report' = GenerateReport(ua_files, ua_clock, days)
    /\ ua_report_lines' = ReportLines(ua_files, ua_clock, days)
    /\ ua_raised' = "none"
    /\ UNCHANGED <<ua_clock, ua_session, ua_files, ua_saves, ua_logged, ua_ops>>

\* the largest `days` argument of generate_report tried
MaxReportDays == 4

\* sessions the run saves itself while reports are asked for
MaxLiveSaves == 1

\* a session after `successes` successful voice commands and `failures`
\* failed text commands, recorded at its start
RECURSIVE Recorded(_, _, _)
Recorded(session, successes, failures) ==
    IF successes > 0
    THEN Recorded(RecordCommand(session, session.start_time, "voice", "open browser",
                                TRUE, 1), successes - 1, failures)
    ELSE IF failures > 0
    THEN Recorded(RecordCommand(session, session.start_time, "text", "open browser",
                                FALSE, 1), successes, failures - 1)
    ELSE session

\* when an earlier run saved its session, `seconds_ago` file-name seconds
\* before this object was constructed
SavedAt(seconds_ago) == 1 - seconds_ago * TicksPerSecond

\* the file that run has written, for a session it had started one tick
\* before saving
SavedSession(seconds_ago, successes, failures) ==
    [st |-> "ok",
     data |-> SessionJson(ClosedSession(
                  Recorded(FreshSession(SavedAt(seconds_ago) - 1), successes, failures),
                  SavedAt(seconds_ago)))]

\* session files of earlier runs, by the name save_session gave them
EarlierSessions ==
    (SessionFileName(SavedAt(1)) :> SavedSession(1, 8, 2))
    @@ (SessionFileName(SavedAt(2)) :> SavedSession(2, 5, 5))
    @@ (SessionFileName(SavedAt(3)) :> SavedSession(3, 10, 0))
    @@ (SessionFileName(SavedAt(4)) :> SavedSession(4, 1, 1))

\* the name of a file in the directory that is no session the program saved
ForeignName == SessionFileName(SavedAt(5))

\* what such a file can hold: no JSON, JSON without start_time, or a record
\* that has a recent start_time and no other session field
ForeignFiles ==
    {[st |-> "partial"],
     [st |-> "ok", data |-> [commands |-> <<>>]],
     [st |-> "ok", data |-> [start_time |-> -1]]}

\* the directory restricted to some of its files
Restrict(files, names) == [name \in names |-> files[name]]

\* Directories a UsageAnalytics can be constructed on: any of the earlier
\* sessions, with or without a foreign file
Directories ==
    {Restrict(EarlierSessions, names) : names \in SUBSET DOMAIN EarlierSessions}
    \cup {Restrict(EarlierSessions, names) @@ (ForeignName :> foreign) :
              names \in SUBSET DOMAIN EarlierSessions, foreign \in ForeignFiles}

\* A run that saves its own session and asks for reports as time passes
RP_Next ==
    \/ ua_saves < MaxLiveSaves /\ UA_save_session("ok")
    \/ \E days \in 1..MaxReportDays : UA_generate_report(days)
    \/ UA_Tick

UA_Next ==
    \/ \E command_type \in CommandTypes, success \in BOOLEAN :
           UA_record_command(command_type, "open browser", success, 1)
    \/ \E feature_name \in FeatureNames : UA_record_feature_usage(feature_name)
    \/ \E outcome \in {"ok", "dump_fails"} : UA_save_session(outcome)
    \/ UA_Tick

\* callers of a started SystemMonitor stop after this many calls
MaxCallerOps == 3

CallerMayCall ==
    Len(sm_snapshots) + Len(sm_recorded) + sm_current_metrics.error_count < MaxCallerOps

\* A SystemMonitor started once, its threads, and callers that record response
\* times and errors and read the current metrics
SNAP_Next ==
    \/ /\ sm_starts = 0
       /\ SM_start_monitoring
    \/ \E tid \in ThreadIds : SM_thread_step(tid)
    \/ CallerMayCall /\ SM_get_current_metrics
    \/ CallerMayCall /\ SM_record_response_time(Len(sm_recorded) + 1)
    \/ /\ CallerMayCall
       /\ \E outcome \in {"ok", "read_fails", "write_fails"} :
              SM_record_error("ValueError", outcome)

\* ------------------------------ PerformanceMonitor, MetricsCollector, AlertManager
MetricsMaxLen == 1000

MetricTypes == {"cpu", "memory", "disk", "network", "response_time"}

\* deque(maxlen=1000).append: the oldest element leaves a full deque
DequeAppend(d, point) ==
    IF Len(d) >= MetricsMaxLen THEN Append(Tail(d), point) ELSE Append(d, point)

\* the default of config.get('monitoring.thresholds', {...}); durations are in
\* milliseconds here, so that the 2.0 seconds of response_time are 2000
DefaultThresholds ==
    [cpu_percent |-> 80, memory_percent |-> 85, disk_percent |-> 90,
     response_time |-> 2000]

\* thresholds a configuration can give the PerformanceMonitor
PM_ThresholdConfigs == {DefaultThresholds, [cpu_percent |-> 80, memory_percent |-> 85]}

\* 'monitoring.alert_thresholds' a configuration can give the MetricsCollector
MC_ThresholdConfigs == {[cpu_usage |-> 80, memory_usage |-> 85], [cpu_usage |-> 80]}

\* percentages a sample can show
Percentages == {50, 85, 95}

\* the names MetricsCollector stores points under
MetricNames == {"cpu_usage", "memory_usage", "request_latency"}

\* 'monitoring.retention_days' (7 by default), in ticks of the clock
RetentionTicks == 1

\* PerformanceMetric(timestamp, 'response_time', duration, {'endpoint': endpoint})
ResponseTimePoint(now, duration, endpoint) ==
    [timestamp |-> now, name |-> "response_time", value |-> duration,
     metadata |-> [endpoint |-> endpoint]]

\* the 'response_time' deque after the calls record_response_time(first,
\* "/api/test"), ..., record_response_time(last, "/api/test"), made one after
\* the other at time 0
RECURSIVE PM_RecordAll(_, _, _)
PM_RecordAll(d, first, last) ==
    IF first > last THEN d
    ELSE IF first = last THEN DequeAppend(d, ResponseTimePoint(0, first, "/api/test"))
    ELSE LET mid == (first + last) \div 2
             recorded == PM_RecordAll(d, first, mid)
         IN  \* the test has the first half evaluated before the second starts
             IF Len(recorded) = 0 THEN recorded
             ELSE PM_RecordAll(recorded, mid + 1, last)

\* the deque after n such calls, the k-th passing k
PM_ResponseTimesAfter(n) == PM_RecordAll(<<>>, 1, n)

\* The monitors after construction and n PerformanceMonitor.record_response_time
\* calls
MON_InitAfter(pm_config, mc_config, n) ==
    /\ mon_clock = 0
    /\ pm_metrics = [type \in MetricTypes |->
                        IF type = "response_time" THEN PM_ResponseTimesAfter(n) ELSE <<>>]
    /\ pm_thresholds = pm_config
    /\ pm_raised = "none"
    /\ mc_thresholds = mc_config
    /\ am_alert_history = <<>>
    /\ alert_log = <<>>
    /\ mon_evaluations = 0
    /\ pm_recorded = [k \in 1..n |-> ResponseTimePoint(0, k, "/api/test")]
    /\ pm_threads = <<>>
    /\ pm_monitor_thread = 0
    /\ pm_stop_monitoring = FALSE
    /\ pm_caller = "idle"
    /\ pm_starts = 0
    /\ pm_samples = 0
    /\ pm_error_lines = 0
    /\ mon_heap = <<>>
    /\ mc_metrics_data = [name \in MetricNames |-> 0]
    /\ mon_returned = <<>>
    /\ mc_requests = <<>>
    /\ mc_raised = "none"

MON_Init(pm_config, mc_config) == MON_InitAfter(pm_config, mc_config, 0)

\* AlertManager.trigger_alert: the alert it builds from its arguments
Alert(title, message, severity, metadata, now) ==
    [title |-> title, message |-> message, severity |-> severity,
     timestamp |-> now, metadata |-> metadata]

\* _trigger_alert of both monitors: the arguments they pass to trigger_alert.
\* kind is "Performance Alert" or "Metric Alert", the title's prefix.
ThresholdAlert(kind, metric_name, value, threshold, now) ==
    Alert(<<kind, metric_name>>, <<metric_name, value, threshold>>, "warning",
          [metric |-> metric_name, value |-> value, threshold |-> threshold,
           timestamp |-> now], now)

\* the loop of _check_thresholds: one alert per metric, in the order of the
\* dict, that has a threshold and has reached it
RECURSIVE Breaches(_, _, _, _)
Breaches(kind, metrics, thresholds, now) ==
    IF metrics = <<>> THEN <<>>
    ELSE LET m == Head(metrics)
             rest == Breaches(kind, Tail(metrics), thresholds, now)
         IN  IF m.name \in DOMAIN thresholds /\ m.value >= thresholds[m.name]
             THEN <<ThresholdAlert(kind, m.name, m.value, thresholds[m.name], now)>> \o rest
             ELSE rest

\* _trigger_alert constructs an AlertManager of its own, calls trigger_alert on
\* it and returns: the alert is appended to the history of that new object,
\* which nothing else refers to, and is logged.  What remains after the call is
\* the log line; the history of the application's AlertManager is the one
\* passed in, unchanged.
HistoryAfterTrigger(history, alerts) == history

\* PerformanceMonitor._check_thresholds(metrics)
PM_check_thresholds(cpu, memory, disk) ==
    /\ OnlyMonitoring
    /\ UNCHANGED <<am_vars, mc_vars, pm_thread_vars>>
    /\ mon_evaluations < MaxEvaluations
    /\ mon_evaluations' = mon_evaluations + 1
    /\ LET metrics == << [name |-> "cpu_percent", value |-> cpu],
                         [name |-> "memory_percent", value |-> memory],
                         [name |-> "disk_percent", value |-> disk] >>
           alerts == Breaches("Performance Alert", metrics, pm_thresholds, mon_clock)
       IN  /\ alert_log' = alert_log \o alerts
           /\ am_alert_history' = HistoryAfterTrigger(am_alert_history, alerts)
    /\ pm_raised' = "none"
    /\ UNCHANGED <<mon_clock, pm_metrics, pm_thresholds, mc_thresholds, pm_recorded>>

\* MetricsCollector._check_thresholds(metrics)
MC_check_thresholds(cpu, memory) ==
    /\ OnlyMonitoring
    /\ UNCHANGED <<am_vars, mc_vars, pm_thread_vars>>
    /\ mon_evaluations < MaxEvaluations
    /\ mon_evaluations' = mon_evaluations + 1
    /\ LET metrics == << [name |-> "cpu_usage", value |-> cpu],
                         [name |-> "memory_usage", value |-> memory] >>
           alerts == Breaches("Metric Alert", metrics, mc_thresholds, mon_clock)
       IN  /\ alert_log' = alert_log \o alerts
           /\ am_alert_history' = HistoryAfterTrigger(am_alert_history, alerts)
    /\ UNCHANGED <<mon_clock, pm_metrics, pm_thresholds, pm_raised, mc_thresholds,
                   pm_recorded>>

\* notification settings a configuration can give an AlertManager:
\* 'notifications.email.enabled', 'notifications.slack.enabled' and whether
\* 'notifications.slack' holds a webhook_url
NoChannels == [email |-> FALSE, slack |-> FALSE, webhook |-> FALSE]

ChannelConfigs ==
    {NoChannels,
     [email |-> TRUE, slack |-> FALSE, webhook |-> FALSE],
     [email |-> FALSE, slack |-> TRUE, webhook |-> TRUE],
     [email |-> TRUE, slack |-> TRUE, webhook |-> TRUE],
     [email |-> TRUE, slack |-> TRUE, webhook |-> FALSE]}

\* what a send can meet: the message goes out, or the SMTP server or the webhook
\* raises
SendOutcomes == {"ok", "fails"}

\* AlertManager.__init__
AM_Init(channels) ==
    /\ am_channels = channels
    /\ am_attempts = <<>>
    /\ am_error_log = <<>>
    /\ am_raised = "none"

\* a channel that is not called
NotCalled == [attempts |-> <<>>, errors |-> <<>>, raised |-> FALSE]

\* _send_email_alert without its try/except
SendEmailUncaught(alert_id, outcome) ==
    [attempts |-> <<[channel |-> "email", alert |-> alert_id, delivered |-> outcome = "ok"]>>,
     errors |-> <<>>,
     raised |-> outcome # "ok"]

\* _send_email_alert: whatever building or sending the message raises is caught
\* and logged
send_email_alert(alert_id, outcome) ==
    [attempts |-> <<[channel |-> "email", alert |-> alert_id, delivered |-> outcome = "ok"]>>,
     errors |-> IF outcome = "ok" THEN <<>> ELSE <<"Failed to send email alert">>,
     raised |-> FALSE]

\* _send_slack_alert: returns after an error line when no webhook_url is
\* configured; whatever the post raises is caught and logged
send_slack_alert(alert_id, webhook, outcome) ==
    IF ~webhook
    THEN [attempts |-> <<[channel |-> "slack", alert |-> alert_id, delivered |-> FALSE]>>,
          errors |-> <<"Slack webhook URL not configured">>,
          raised |-> FALSE]
    ELSE [attempts |-> <<[channel |-> "slack", alert |-> alert_id,
                          delivered |-> outcome = "ok"]>>,
          errors |-> IF outcome = "ok" THEN <<>> ELSE <<"Failed to send Slack alert">>,
          raised |-> FALSE]

\* AlertManager.trigger_alert called on the application's AlertManager: the
\* alert is appended and logged, then the enabled channels are called inside
\* one try whose except logs
AM_trigger_alert(title, severity, email_outcome, slack_outcome) ==
    /\ OnlyMonitoring
    /\ UNCHANGED <<mc_vars, pm_thread_vars>>
    /\ LET alert == Alert(title, title, severity, [metric |-> "", value |-> 0], mon_clock)
           alert_id == Len(am_alert_history) + 1
           email == IF am_channels.email THEN send_email_alert(alert_id, email_outcome)
                    ELSE NotCalled
           slack == IF ~email.raised /\ am_channels.slack
                    THEN send_slack_alert(alert_id, am_channels.webhook, slack_outcome)
                    ELSE NotCalled
       IN  /\ am_alert_history' = Append(am_alert_history, alert)
           /\ alert_log' = Append(alert_log, alert)
           /\ am_attempts' = am_attempts \o email.attempts \o slack.attempts
           /\ am_error_log' = am_error_log \o email.errors \o slack.errors \o
                  (IF email.raised \/ slack.raised
                   THEN <<"Failed to send alert notifications">> ELSE <<>>)
           /\ am_raised' = "none"
    /\ UNCHANGED <<mon_clock, pm_metrics, pm_thresholds, pm_raised, mc_thresholds,
                   mon_evaluations, pm_recorded, am_channels>>

\* PerformanceMonitor.record_response_time(duration, endpoint)
PM_record_response_time(duration, endpoint) ==
    /\ OnlyMonitoring
    /\ UNCHANGED <<am_vars, mc_vars, pm_thread_vars>>
    /\ LET point == ResponseTimePoint(mon_clock, duration, endpoint)
           limit == IF "response_time" \in DOMAIN pm_thresholds
                    THEN pm_thresholds["response_time"] ELSE 2000
       IN  /\ pm_metrics' = [pm_metrics EXCEPT
                   !["response_time"] = DequeAppend(@, point)]
           /\ pm_recorded' = Append(pm_recorded, point)
           /\ IF duration >= limit
              THEN IF "response_time" \in DOMAIN pm_thresholds
                   THEN /\ alert_log' = Append(alert_log,
                               ThresholdAlert("Performance Alert", "response_time",
                                              duration, limit, mon_clock))
                        /\ pm_raised' = "none"
                   ELSE /\ pm_raised' = "KeyError"
                        /\ UNCHANGED alert_log
              ELSE /\ pm_raised' = "none"
                   /\ UNCHANGED alert_log
    /\ UNCHANGED <<mon_clock, pm_thresholds, mc_thresholds, am_alert_history,
                   mon_evaluations>>

\* what psutil can report to one iteration of _monitor_performance
PM_Readings ==
    { [cpu_percent |-> 50, memory_percent |-> 50, memory_total |-> 16, memory_available |-> 8,
       disk_percent |-> 50, disk_total |-> 100, disk_used |-> 50, disk_free |-> 50,
       bytes_sent |-> 1, bytes_recv |-> 2],
      [cpu_percent |-> 85, memory_percent |-> 95, memory_total |-> 16, memory_available |-> 1,
       disk_percent |-> 95, disk_total |-> 100, disk_used |-> 95, disk_free |-> 5,
       bytes_sent |-> 3, bytes_recv |-> 4] }

\* the threads a PerformanceMonitor can have created
PM_ThreadIds == 1..MaxStarts

\* the state the caller-side actions of the PerformanceMonitor leave alone
pm_data == <<mon_clock, pm_metrics, pm_thresholds, pm_raised, mc_thresholds,
             am_alert_history, alert_log, mon_evaluations, pm_recorded, am_vars, mc_vars>>

\* start_monitoring: nothing when a thread is set; else a new daemon thread
\* running _monitor_performance
PM_start_monitoring ==
    /\ OnlyMonitoring
    /\ pm_caller = "idle"
    /\ pm_starts < MaxStarts
    /\ pm_starts' = pm_starts + 1
    /\ IF pm_monitor_thread # 0
       THEN UNCHANGED <<pm_threads, pm_monitor_thread>>
       ELSE /\ pm_threads' = Append(pm_threads, [pc |-> "check"])
            /\ pm_monitor_thread' = Len(pm_threads) + 1
    /\ UNCHANGED <<pm_data, pm_stop_monitoring, pm_caller, pm_samples, pm_error_lines>>

\* stop_monitoring, first half: nothing when no thread is set; else the Event is
\* set and the caller waits in join()
PM_stop_begin ==
    /\ OnlyMonitoring
    /\ pm_caller = "idle"
    /\ pm_monitor_thread # 0
    /\ pm_stop_monitoring' = TRUE
    /\ pm_caller' = "join"
    /\ UNCHANGED <<pm_data, pm_threads, pm_monitor_thread, pm_starts, pm_samples,
                   pm_error_lines>>

\* stop_monitoring, second half: join() returns when the thread has ended, and
\* _monitor_thread becomes None
PM_stop_join ==
    /\ OnlyMonitoring
    /\ pm_caller = "join"
    /\ pm_threads[pm_monitor_thread].pc = "done"
    /\ pm_monitor_thread' = 0
    /\ pm_caller' = "idle"
    /\ UNCHANGED <<pm_data, pm_threads, pm_stop_monitoring, pm_starts, pm_samples,
                   pm_error_lines>>

\* while not self._stop_monitoring.is_set()
PM_loop_check(tid) ==
    /\ OnlyMonitoring
    /\ tid \in DOMAIN pm_threads
    /\ pm_threads[tid].pc = "check"
    /\ pm_threads' = [pm_threads EXCEPT ![tid].pc =
                          IF pm_stop_monitoring THEN "done" ELSE "body"]
    /\ UNCHANGED <<pm_data, pm_monitor_thread, pm_stop_monitoring, pm_caller, pm_starts,
                   pm_samples, pm_error_lines>>

\* PerformanceMetric(timestamp, name, value, metadata) of a sample
SamplePoint(now, name, value, metadata) ==
    [timestamp |-> now, name |-> name, value |-> value, metadata |-> metadata]

\* one iteration of _monitor_performance: four points stored, the thresholds
\* checked, then the sleep
PM_sample(tid, reading) ==
    /\ OnlyMonitoring
    /\ tid \in DOMAIN pm_threads
    /\ pm_threads[tid].pc = "body"
    /\ pm_samples < MaxSamples
    /\ pm_samples' = pm_samples + 1
    /\ pm_metrics' = [pm_metrics EXCEPT
           !["cpu"] = DequeAppend(@, SamplePoint(mon_clock, "cpu_usage",
                          reading.cpu_percent, [type |-> "system"])),
           !["memory"] = DequeAppend(@, SamplePoint(mon_clock, "memory_usage",
                          reading.memory_percent,
                          [total |-> reading.memory_total,
                           available |-> reading.memory_available])),
           !["disk"] = DequeAppend(@, SamplePoint(mon_clock, "disk_usage",
                          reading.disk_percent,
                          [total |-> reading.disk_total, used |-> reading.disk_used,
                           free |-> reading.disk_free])),
           !["network"] = DequeAppend(@, SamplePoint(mon_clock, "network_io",
                          reading.bytes_sent + reading.bytes_recv,
                          [bytes_sent |-> reading.bytes_sent,
                           bytes_recv |-> reading.bytes_recv]))]
    /\ LET metrics == << [name |-> "cpu_percent", value |-> reading.cpu_percent],
                         [name |-> "memory_percent", value |-> reading.memory_percent],
                         [name |-> "disk_percent", value |-> reading.disk_percent] >>
           alerts == Breaches("Performance Alert", metrics, pm_thresholds, mon_clock)
       IN  /\ alert_log' = alert_log \o alerts
           /\ am_alert_history' = HistoryAfterTrigger(am_alert_history, alerts)
    /\ pm_threads' = [pm_threads EXCEPT ![tid].pc = "check"]
    /\ UNCHANGED <<mon_clock, pm_thresholds, pm_raised, mc_thresholds, mon_evaluations,
                   pm_recorded, am_vars, mc_vars, pm_monitor_thread, pm_stop_monitoring,
                   pm_caller, pm_starts, pm_error_lines>>

\* an iteration in which a psutil call raises before anything is stored: the
\* error is logged and the loop goes on without sleeping
PM_sample_fails(tid) ==
    /\ OnlyMonitoring
    /\ tid \in DOMAIN pm_threads
    /\ pm_threads[tid].pc = "body"
    /\ pm_error_lines < MaxSamples
    /\ pm_error_lines' = pm_error_lines + 1
    /\ pm_threads' = [pm_threads EXCEPT ![tid].pc = "check"]
    /\ UNCHANGED <<pm_data, pm_monitor_thread, pm_stop_monitoring, pm_caller, pm_starts,
                   pm_samples>>

PM_thread_step(tid) ==
    \/ PM_loop_check(tid)
    \/ \E reading \in PM_Readings : PM_sample(tid, reading)
    \/ PM_sample_fails(tid)

\* [m for m in metrics if m.timestamp >= start_time] when start_time is given,
\* then the same with <= end_time; a datetime is always true in `if start_time:`
TimeFiltered(metrics, start_time, end_time) ==
    LET from_start == IF start_time # None
                      THEN SelectSeq(metrics, LAMBDA m : m.timestamp >= start_time)
                      ELSE metrics
    IN  IF end_time # None
        THEN SelectSeq(from_start, LAMBDA m : m.timestamp <= end_time)
        ELSE from_start

\* PerformanceMonitor.get_metrics: [] for an unknown type, else
\* list(self._metrics[metric_type]), a new list, filtered when filters are given
PM_get_metrics(metric_type, start_time, end_time) ==
    /\ OnlyMonitoring
    /\ LET metrics == IF metric_type \notin DOMAIN pm_metrics THEN <<>>
                      ELSE TimeFiltered(pm_metrics[metric_type], start_time, end_time)
       IN  /\ mon_heap' = Append(mon_heap, metrics)
           /\ mon_returned' = Append(mon_returned,
                  [by |-> "PerformanceMonitor", list |-> Len(mon_heap) + 1,
                   returned |-> metrics])
    /\ UNCHANGED <<mon_clock, pm_metrics, pm_thresholds, pm_raised, mc_thresholds,
                   am_alert_history, alert_log, mon_evaluations, pm_recorded, am_vars, pm_thread_vars,
                   mc_metrics_data, mc_requests, mc_raised>>

\* _store_metric without the cleanup of lines 102-108
StoreMetricKeepsAll(heap, data, name, value, timestamp, labels, now) ==
    LET created == IF data[name] = 0 THEN Append(heap, <<>>) ELSE heap
        id == IF data[name] = 0 THEN Len(heap) + 1 ELSE data[name]
        point == [timestamp |-> timestamp, value |-> value, labels |-> labels]
        appended == [created EXCEPT ![id] = Append(@, point)]
    IN  [heap |-> Append(appended, appended[id]),
         data |-> [data EXCEPT ![name] = Len(appended) + 1]]

\* MetricsCollector._store_metric: the list of the name is created when the key
\* is missing and the point is appended to it in place; then a new list of the
\* points younger than the retention period is bound to the name.  The result
\* is the heap and the bindings afterwards.
StoreMetric(heap, data, name, value, timestamp, labels, now) ==
    LET created == IF data[name] = 0 THEN Append(heap, <<>>) ELSE heap
        id == IF data[name] = 0 THEN Len(heap) + 1 ELSE data[name]
        point == [timestamp |-> timestamp, value |-> value, labels |-> labels]
        appended == [created EXCEPT ![id] = Append(@, point)]
        cutoff == now - RetentionTicks
        kept == SelectSeq(appended[id], LAMBDA p : p.timestamp > cutoff)
    IN  [heap |-> Append(appended, kept),
         data |-> [data EXCEPT ![name] = Len(appended) + 1]]

\* MetricsCollector.record_request(duration, endpoint)
MC_record_request(duration, endpoint) ==
    /\ OnlyMonitoring
    /\ LET stored == StoreMetric(mon_heap, mc_metrics_data, "request_latency", duration,
                                 mon_clock, [endpoint |-> endpoint], mon_clock)
       IN  /\ mon_heap' = stored.heap
           /\ mc_metrics_data' = stored.data
    /\ mc_requests' = Append(mc_requests, duration)
    /\ mc_raised' = "none"
    /\ UNCHANGED <<mon_clock, pm_metrics, pm_thresholds, pm_raised, mc_thresholds,
                   am_alert_history, alert_log, mon_evaluations, pm_recorded, am_vars, pm_thread_vars,
                   mon_returned>>

\* MetricsCollector._store_metric(name, value, timestamp) called as it is, with
\* a timestamp of the caller's choice
MC_store_metric(name, value, timestamp) ==
    /\ OnlyMonitoring
    /\ LET stored == StoreMetric(mon_heap, mc_metrics_data, name, value, timestamp,
                                 <<>>, mon_clock)
       IN  /\ mon_heap' = stored.heap
           /\ mc_metrics_data' = stored.data
    /\ mc_raised' = "none"
    /\ UNCHANGED <<mon_clock, pm_metrics, pm_thresholds, pm_raised, mc_thresholds,
                   am_alert_history, alert_log, mon_evaluations, pm_recorded, am_vars, pm_thread_vars,
                   mon_returned, mc_requests>>

\* MetricsCollector.get_metrics: [] (a new list) for an unknown name; without
\* filters the stored list itself; with a filter a new list
MC_get_metrics(metric_name, start_time, end_time) ==
    /\ OnlyMonitoring
    /\ LET known == metric_name \in DOMAIN mc_metrics_data /\ mc_metrics_data[metric_name] # 0
           stored == mon_heap[mc_metrics_data[metric_name]]
           is_new == ~known \/ start_time # None \/ end_time # None
           metrics == IF known THEN TimeFiltered(stored, start_time, end_time) ELSE <<>>
       IN  /\ mon_heap' = IF is_new THEN Append(mon_heap, metrics) ELSE mon_heap
           /\ mon_returned' = Append(mon_returned,
                  [by |-> "MetricsCollector",
                   list |-> IF is_new THEN Len(mon_heap) + 1 ELSE mc_metrics_data[metric_name],
                   returned |-> metrics])
    /\ mc_raised' = "none"
    /\ UNCHANGED <<mon_clock, pm_metrics, pm_thresholds, pm_raised, mc_thresholds,
                   am_alert_history, alert_log, mon_evaluations, pm_recorded, am_vars, pm_thread_vars,
                   mc_metrics_data, mc_requests>>

MON_Tick ==
    /\ OnlyMonitoring
    /\ UNCHANGED <<am_vars, mc_vars, pm_thread_vars>>
    /\ mon_clock < MaxMonTicks
    /\ mon_clock' = mon_clock + 1
    /\ UNCHANGED <<pm_metrics, pm_thresholds, pm_raised, mc_thresholds,
                   am_alert_history, alert_log, mon_evaluations, pm_recorded>>

\* Threshold evaluations of both monitors beside an application that holds an
\* AlertManager
MON_Next ==
    \/ \E cpu \in Percentages, memory \in Percentages, disk \in Percentages :
           PM_check_thresholds(cpu, memory, disk)
    \/ \E cpu \in Percentages, memory \in Percentages : MC_check_thresholds(cpu, memory)
    \/ /\ Len(am_alert_history) < MaxAlerts
       /\ \E severity \in {"warning", "error"} :
              AM_trigger_alert(<<"System Error">>, severity, "ok", "ok")
    \/ MON_Tick

\* the trigger_alert calls made on one AlertManager stop here
MaxTriggers == MaxAlerts + 1

\* An application triggering alerts on its AlertManager
AM_Next ==
    \/ /\ Len(am_alert_history) < MaxTriggers
       /\ \E severity \in {"warning", "error"},
             email_outcome \in SendOutcomes, slack_outcome \in SendOutcomes :
              AM_trigger_alert(<<"System Error">>, severity, email_outcome, slack_outcome)
    \/ MON_Tick

\* A SystemMonitor and a PerformanceMonitor, each started once, their threads,
\* and request handlers that record response times and errors on them
WR_Next ==
    \/ /\ sm_starts = 0
       /\ SM_start_monitoring
    \/ \E tid \in ThreadIds : SM_thread_step(tid)
    \/ CallerMayCall /\ SM_record_response_time(Len(sm_recorded) + 1)
    \/ CallerMayCall /\ SM_record_error("ValueError", "ok")
    \/ /\ pm_starts = 0
       /\ PM_start_monitoring
    \/ \E tid \in PM_ThreadIds : PM_thread_step(tid)
    \/ /\ Len(pm_recorded) < MaxSamples
       /\ PM_record_response_time(Len(pm_recorded) + 1, "/api/test")

\* A SystemMonitor started once and a PerformanceMonitor, started and stopped
\* by their callers while their threads run
LC_Next ==
    \/ /\ sm_starts = 0
       /\ SM_start_monitoring
    \/ /\ sm_starts > 0
       /\ SM_stop_begin
    \/ SM_stop_join_monitor
    \/ SM_stop_join_logging
    \/ \E tid \in ThreadIds : SM_thread_step(tid)
    \/ PM_start_monitoring
    \/ PM_stop_begin
    \/ PM_stop_join
    \/ \E tid \in PM_ThreadIds : PM_thread_step(tid)

\* the calls made on the two monitors stop here
MaxMetricOps == 3

MetricCallsMade == Len(mon_returned) + Len(pm_recorded) + Len(mc_requests)

\* _store_metric calls made on one MetricsCollector
MaxStores == 2

\* how far before now the timestamp of a stored point lies at most
MaxAge == 2

\* every _store_metric call leaves the appended list and the kept list on the
\* heap
StoresMade == Len(mon_heap) \div 2

\* Points of any age stored under two names as time passes
RT_StoreNext ==
    \/ /\ StoresMade < MaxStores
       /\ \E name \in {"cpu_usage", "request_latency"}, age \in 0..MaxAge :
              MC_store_metric(name, 1, mon_clock - age)
    \/ MON_Tick

\* Callers storing points on a PerformanceMonitor and a MetricsCollector and
\* reading them back; the k-th store on an object passes k
GM_Next ==
    \/ /\ MetricCallsMade < MaxMetricOps
       /\ PM_record_response_time(Len(pm_recorded) + 1, "/api/test")
    \/ /\ MetricCallsMade < MaxMetricOps
       /\ MC_record_request(Len(mc_requests) + 1, "/api/test")
    \/ /\ MetricCallsMade < MaxMetricOps
       /\ \E metric_type \in {"response_time", "gpu"}, start_time \in {None, 1} :
              PM_get_metrics(metric_type, start_time, None)
    \/ /\ MetricCallsMade < MaxMetricOps
       /\ \E metric_name \in {"request_latency", "gpu"}, start_time \in {None, 1},
             end_time \in {None, 0} :
              MC_get_metrics(metric_name, start_time, end_time)
    \/ MON_Tick

\* the calls made on each monitor stop here
MaxRecorded == MetricsMaxLen + MaxOverflow

\* A caller serving requests and recording the response time of each on a
\* SystemMonitor and on a PerformanceMonitor, in either order; the k-th call on
\* an object passes k, so that the values in a buffer tell which calls it holds
RT_Next ==
    \/ /\ Len(sm_recorded) < MaxRecorded
       /\ Len(sm_recorded) <= Len(pm_recorded)
       /\ SM_record_response_time(Len(sm_recorded) + 1)
    \/ /\ Len(pm_recorded) < MaxRecorded
       /\ Len(pm_recorded) <= Len(sm_recorded)
       /\ PM_record_response_time(Len(pm_recorded) + 1, "/api/test")

\* ---------------------------------------------------------- specifications
Init ==
    /\ ET_Init
    /\ SM_Init
    /\ UA_Init
    /\ \E pm_config \in PM_ThresholdConfigs, mc_config \in MC_ThresholdConfigs :
           MON_Init(pm_config, mc_config)
    /\ AM_Init(NoChannels)

\* Threshold evaluations and the application's AlertManager
SpecAlerts == Init /\ [][MON_Next]_vars

\* Both monitors with default thresholds, after construction or after
\* MetricsMaxLen - 1 record_response_time calls on each
InitRecorded ==
    /\ ET_Init
    /\ UA_Init
    /\ \E n \in {0, MetricsMaxLen - 1} :
           /\ SM_InitAfter(n)
           /\ MON_InitAfter(DefaultThresholds, [cpu_usage |-> 80, memory_usage |-> 85], n)
    /\ AM_Init(NoChannels)

\* An AlertManager with any notification settings
InitChannels ==
    /\ ET_Init
    /\ SM_Init
    /\ UA_Init
    /\ MON_Init(DefaultThresholds, [cpu_usage |-> 80, memory_usage |-> 85])
    /\ \E channels \in ChannelConfigs : AM_Init(channels)

SpecAlertManager == InitChannels /\ [][AM_Next]_vars

SpecSnapshots == Init /\ [][SNAP_Next]_vars

\* Default thresholds, no notification channel
InitDefault ==
    /\ ET_Init
    /\ SM_Init
    /\ UA_Init
    /\ MON_Init(DefaultThresholds, [cpu_usage |-> 80, memory_usage |-> 85])
    /\ AM_Init(NoChannels)

SpecWriters == InitDefault /\ [][WR_Next]_vars

SpecErrorDetails == InitDefault /\ [][ED_Next]_vars

SpecCategories == InitDefault /\ [][CT_Next]_vars

SpecErrorRate == InitDefault /\ [][ER_Next]_vars

SpecRetention == InitDefault /\ [][RT_StoreNext]_vars

SpecLifecycle == InitDefault /\ [][LC_Next]_vars

SpecAverage == InitDefault /\ [][AV_Next]_vars

SpecErrorFailures == InitDefault /\ [][EF_Next]_vars

\* record_response_time calls made on one PerformanceMonitor
MaxResponses == 3

\* durations in milliseconds: below, at and above the 2.0 s default
Durations == {1000, 2000, 3000}

\* Request handlers recording response times on a PerformanceMonitor built
\* from any of the threshold configurations
RR_Next ==
    \/ /\ Len(pm_recorded) < MaxResponses
       /\ \E duration \in Durations : PM_record_response_time(duration, "/api/test")
    \/ MON_Tick

SpecResponseAlerts == Init /\ [][RR_Next]_vars

\* A UsageAnalytics constructed on a directory that earlier runs have filled
InitOnDirectory ==
    /\ ET_Init
    /\ SM_Init
    /\ \E files \in Directories : UA_InitOn(files)
    /\ MON_Init(DefaultThresholds, [cpu_usage |-> 80, memory_usage |-> 85])
    /\ AM_Init(NoChannels)

SpecReports == InitOnDirectory /\ [][RP_Next]_vars

SpecGetMetrics == InitDefault /\ [][GM_Next]_vars

SpecResponseTimes == InitRecorded /\ [][RT_Next]_vars

\* One SystemMonitor, its caller and its threads
SpecSystemMonitor == Init /\ [][SM_Next]_vars


\* One caller: track_error and get_error_summary called one after the other
\* while the days go by.
ET_NextSeq ==
    \/ ET_track_error(1)
    \/ \E days \in 1..MaxDays : ET_get_error_summary(1, days)
    \/ ET_Tick

SpecErrorTracker == Init /\ [][ET_NextSeq]_vars

\* Several threads inside track_error on the same tracker.
ET_NextConc == \E t \in Threads : ET_track_error(t)

SpecErrorTrackerConc == Init /\ [][ET_NextConc]_vars

\* One UsageAnalytics object and its caller
SpecUsageAnalytics == Init /\ [][UA_Next]_vars

\* ------------------------------------------------------------------ claims
\* Every record the day files hold whose timestamp lies in the last `days` days
RECURSIVE RecordedSince(_, _)
RecordedSince(start_date, day) ==
    IF day < 0 THEN <<>>
    ELSE LET IsRecent(e) == e.timestamp >= start_date
         IN  RecordedSince(start_date, day - 1) \o SelectSeq(FileAt(day).data, IsRecent)

RecordedWithin(days) ==
    RecordedSince(et_clock - days * TicksPerDay, MaxClock \div TicksPerDay)

\* C1: once every track_error call of every thread has returned, the day's
\* file holds exactly one record per call: no tracked error is lost.
C1_NoErrorLost ==
    (\A t \in Threads : et_pc[t] = "idle" /\ et_calls[t] = MaxCalls)
        => /\ FileAt(DateOf(et_clock)).st = "ok"
           /\ Len(FileAt(DateOf(et_clock)).data) = NThreads * MaxCalls

\* C2: get_error_summary(days) counts each error recorded within the last
\* `days` days exactly once, the ones tracked on the current day included:
\* total_errors is their number and error_categories their per-category counts.
C2_SummaryCountsRecent ==
    [][\A days \in 1..MaxDays :
          ET_get_error_summary(1, days) =>
              /\ et_summary'.total_errors = Len(RecordedWithin(days))
              /\ et_summary'.error_categories = CategoryCounts(RecordedWithin(days))]_vars

\* The threads of the monitor that have not terminated, by target
LiveThreads(target) ==
    {tid \in DOMAIN sm_threads :
        sm_threads[tid].target = target /\ sm_threads[tid].pc # "done"}

StoppedAfterOneStart == sm_result = "stopped" /\ sm_starts = 1

\* C3: for a SystemMonitor started once, stop_monitoring returns only after
\* the sampling thread and the logging thread have terminated, and once it has
\* returned no thread of the monitor writes current_metrics or enqueues a sample.
C3_StopJoinsThreads ==
    /\ [](StoppedAfterOneStart =>
            LiveThreads("_monitor_system") = {} /\ LiveThreads("_log_metrics") = {})
    /\ [][StoppedAfterOneStart =>
            /\ sm_current_metrics' = sm_current_metrics
            /\ Len(sm_queue') <= Len(sm_queue)]_vars

C3_Witness == StoppedAfterOneStart /\ sm_samples > 0 /\ sm_current_metrics.timestamp >= 0

\* C4: start_monitoring is idempotent: at any time at most one sampling loop
\* and at most one logging loop of the monitor are active.
C4_SingleSamplingLoop ==
    /\ Cardinality(LiveThreads("_monitor_system")) <= 1
    /\ Cardinality(LiveThreads("_log_metrics")) <= 1

\* C5: after every record_command call and every save_session call the current
\* session has successful_commands + failed_commands = len(commands).
C5_SuccessPlusFailed ==
    ua_session.successful_commands + ua_session.failed_commands
        = Len(ua_session.commands)

C5_Witness ==
    /\ ua_saves >= 1
    /\ ua_session.successful_commands = 1
    /\ ua_session.failed_commands = 1

\* C6: after every record_command call, whatever its arguments, the current
\* session has voice_commands + text_commands = len(commands).
C6_VoicePlusText ==
    ua_session.voice_commands + ua_session.text_commands = Len(ua_session.commands)

\* C8: a successful save_session leaves the in-memory session empty (no
\* commands, no features, all four counters 0), and the file it wrote holds
\* exactly the commands, feature counts and counters the session held before.
C8_SaveResetsAndPersists ==
    [][ua_saves' = ua_saves + 1 =>
          LET name == SessionFileName(ua_clock) IN
          /\ ua_session'.commands = <<>>
          /\ DOMAIN ua_session'.features_used = {}
          /\ ua_session'.voice_commands = 0
          /\ ua_session'.text_commands = 0
          /\ ua_session'.successful_commands = 0
          /\ ua_session'.failed_commands = 0
          /\ name \in DOMAIN ua_files'
          /\ ua_files'[name].st = "ok"
          /\ ua_files'[name].data.commands = ua_session.commands
          /\ ua_files'[name].data.features_used = ua_session.features_used
          /\ ua_files'[name].data.voice_commands = ua_session.voice_commands
          /\ ua_files'[name].data.text_commands = ua_session.text_commands
          /\ ua_files'[name].data.successful_commands = ua_session.successful_commands
          /\ ua_files'[name].data.failed_commands = ua_session.failed_commands]_vars

C8_Witness ==
    /\ ua_saves >= 1
    /\ ua_session.commands = <<>>
    /\ \E name \in DOMAIN ua_files :
          /\ ua_files[name].st = "ok"
          /\ Len(ua_files[name].data.commands) >= 1
          /\ DOMAIN ua_files[name].data.features_used # {}

\* C9: every save_session call writes a file of its own: after k successful
\* saves, k session files exist and none has been overwritten.
C9_OneFilePerSave ==
    Cardinality({name \in DOMAIN ua_files : ua_files[name].st = "ok"}) = ua_saves

\* the last n elements of s, all of s when it has fewer
LastN(s, n) == SubSeq(s, IF Len(s) > n THEN Len(s) - n + 1 ELSE 1, Len(s))

\* C7: after any sequence of N record_response_time calls, SystemMonitor's
\* response_times holds exactly the min(N, 100) most recent values in insertion
\* order, and PerformanceMonitor's 'response_time' buffer holds exactly the
\* min(N, 1000) most recent points in insertion order.
C7_BoundedRings ==
    /\ sm_current_metrics.response_times = LastN(sm_recorded, 100)
    /\ Len(sm_current_metrics.response_times) =
           (IF Len(sm_recorded) < 100 THEN Len(sm_recorded) ELSE 100)
    /\ pm_metrics["response_time"] = LastN(pm_recorded, 1000)
    /\ Len(pm_metrics["response_time"]) =
           (IF Len(pm_recorded) < 1000 THEN Len(pm_recorded) ELSE 1000)

\* both buffers have been filled past their capacity and have dropped points
C7_Witness ==
    /\ Len(sm_recorded) > 100
    /\ Head(sm_current_metrics.response_times) = Len(sm_recorded) - 99
    /\ Len(pm_recorded) > 1000
    /\ Head(pm_metrics["response_time"]).value = Len(pm_recorded) - 999

\* the alerts a step has appended to the history of the AlertManager
NewAlerts ==
    SubSeq(am_alert_history', Len(am_alert_history) + 1, Len(am_alert_history'))

\* the alerts of a list that carry this metric and this value in their metadata
AlertsFor(alerts, metric, value) ==
    {i \in DOMAIN alerts : /\ alerts[i].metadata.metric = metric
                           /\ alerts[i].metadata.value = value}

\* a metric with a threshold gets one new alert at or above it and none below
OneAlertPerBreach(thresholds, metric, value) ==
    metric \in DOMAIN thresholds =>
        Cardinality(AlertsFor(NewAlerts, metric, value)) =
            (IF value >= thresholds[metric] THEN 1 ELSE 0)

\* C10: on every threshold evaluation of PerformanceMonitor and of
\* MetricsCollector, each metric that has a configured threshold and whose
\* sampled value is at or above it gets exactly one alert, carrying the metric
\* name and the value in its metadata, appended to the AlertManager history and
\* retrievable from it afterwards; a value below the threshold gets none.
C10_BreachAlertsRetrievable ==
    [][ /\ \A cpu \in Percentages, memory \in Percentages, disk \in Percentages :
               PM_check_thresholds(cpu, memory, disk) =>
                   /\ OneAlertPerBreach(pm_thresholds, "cpu_percent", cpu)
                   /\ OneAlertPerBreach(pm_thresholds, "memory_percent", memory)
                   /\ OneAlertPerBreach(pm_thresholds, "disk_percent", disk)
        /\ \A cpu \in Percentages, memory \in Percentages :
               MC_check_thresholds(cpu, memory) =>
                   /\ OneAlertPerBreach(mc_thresholds, "cpu_usage", cpu)
                   /\ OneAlertPerBreach(mc_thresholds, "memory_usage", memory)
      ]_vars

\* the channel calls a step has added
NewAttempts == SubSeq(am_attempts', Len(am_attempts) + 1, Len(am_attempts'))

\* this channel has been called in the step
Attempted(channel) == \E i \in DOMAIN NewAttempts : NewAttempts[i].channel = channel

\* C11: whatever the sends of a trigger_alert call meet, the alert is recorded
\* in the history, every enabled channel is attempted (a failing email send
\* does not keep the Slack send from being attempted, nor the reverse), and no
\* exception reaches the caller.
C11_ChannelFailureContained ==
    [][ \A severity \in {"warning", "error"},
           email_outcome \in SendOutcomes, slack_outcome \in SendOutcomes :
           AM_trigger_alert(<<"System Error">>, severity, email_outcome, slack_outcome) =>
               /\ Len(am_alert_history') = Len(am_alert_history) + 1
               /\ am_alert_history'[Len(am_alert_history')].title = <<"System Error">>
               /\ am_alert_history'[Len(am_alert_history')].severity = severity
               /\ SubSeq(am_alert_history', 1, Len(am_alert_history)) = am_alert_history
               /\ am_channels.email => Attempted("email")
               /\ am_channels.slack => Attempted("slack")
               /\ am_raised' = "none"
      ]_vars

\* an alert whose email send failed, whose Slack send went out and which is in
\* the history
C11_Witness ==
    \E i \in DOMAIN am_attempts, j \in DOMAIN am_attempts :
        /\ am_attempts[i].channel = "email" /\ ~am_attempts[i].delivered
        /\ am_attempts[j].channel = "slack" /\ am_attempts[j].delivered
        /\ am_attempts[i].alert = am_attempts[j].alert
        /\ am_attempts[i].alert \in DOMAIN am_alert_history
        /\ am_raised = "none"

\* C12: a snapshot returned by get_current_metrics is an independent copy: what
\* it shows, the response_times sequence included, stays what it showed when
\* it was returned, whatever record_response_time, record_error and the
\* sampling thread do afterwards.
C12_SnapshotIndependent ==
    \A i \in DOMAIN sm_snapshots :
        Deref(sm_snapshots[i].dict) = sm_snapshots[i].returned

\* C13: a list returned by get_metrics of PerformanceMonitor or of
\* MetricsCollector, with or without time filters, keeps the contents and the
\* length it had when it was returned, whatever points are stored afterwards.
C13_ReturnedListsUnshared ==
    \A i \in DOMAIN mon_returned :
        mon_heap[mon_returned[i].list] = mon_returned[i].returned

\* C14: the in-memory metric state of a monitor (current_metrics of the
\* SystemMonitor, response_times and error_count included, and _metrics of the
\* PerformanceMonitor) is written only by the monitor's own sampling thread:
\* every step that changes it is an iteration of that thread's loop.
C14_OnlySamplingThreadWrites ==
    [][ /\ sm_current_metrics' # sm_current_metrics =>
               \E tid \in ThreadIds, reading \in Readings : SM_sample(tid, reading)
        /\ pm_metrics' # pm_metrics =>
               \E tid \in PM_ThreadIds, reading \in PM_Readings : PM_sample(tid, reading)
      ]_vars

\* ---- generate_report: claims
SessionKeys ==
    {"start_time", "end_time", "duration", "commands", "features_used",
     "voice_commands", "text_commands", "successful_commands", "failed_commands"}

\* the file holds a session as save_session writes it
IsSavedSession(file) == file.st = "ok" /\ DOMAIN file.data = SessionKeys

\* the files a report over `days` days at `now` has to count
InWindow(files, now, days) ==
    {name \in DOMAIN files :
        /\ IsSavedSession(files[name])
        /\ files[name].data.start_time >= now - days * TicksPerDay}

\* every file that parses and carries a start_time in the window is a saved
\* session
OnlySavedSessions(files, now, days) ==
    \A name \in DOMAIN files :
        (/\ files[name].st = "ok"
         /\ "start_time" \in DOMAIN files[name].data
         /\ files[name].data.start_time >= now - days * TicksPerDay)
        => IsSavedSession(files[name])

\* the sum of value[name] over names
RECURSIVE SumOver(_, _)
SumOver(value, names) ==
    IF names = {} THEN 0
    ELSE LET name == CHOOSE n \in names : TRUE
         IN  value[name] + SumOver(value, names \ {name})

RECURSIVE ProductOver(_, _)
ProductOver(value, names) ==
    IF names = {} THEN 1
    ELSE LET name == CHOOSE n \in names : TRUE
         IN  value[name] * ProductOver(value, names \ {name})

\* rate = (sum over names of successful/total) / |names|, compared after
\* multiplying out every denominator
IsMeanOfRatios(rate, files, names) ==
    LET total == [name \in names |-> files[name].data.successful_commands
                                     + files[name].data.failed_commands]
        all   == ProductOver(total, names)
        share == [name \in names |->
                     files[name].data.successful_commands * (all \div total[name])]
    IN  rate.num * Cardinality(names) * all = rate.den * SumOver(share, names)

\* rate = (sum of successful) / (sum of successful + failed)
IsPooledRatio(rate, files, names) ==
    LET successful == [name \in names |-> files[name].data.successful_commands]
        total == [name \in names |-> files[name].data.successful_commands
                                     + files[name].data.failed_commands]
    IN  rate.num * SumOver(total, names) = rate.den * SumOver(successful, names)

\* C15: when the saved sessions inside the window each hold at least one
\* command, the success_rate of the report is the arithmetic mean of the
\* sessions' own ratios successful / (successful + failed).
C15_SuccessRateIsMeanOfRatios ==
    [][\A days \in 1..MaxReportDays :
          LET names == InWindow(ua_files, ua_clock, days)
          IN  (/\ UA_generate_report(days)
               /\ OnlySavedSessions(ua_files, ua_clock, days)
               /\ names # {}
               /\ \A name \in names : Len(ua_files[name].data.commands) >= 1)
              => IsMeanOfRatios(ua_report'.success_rate, ua_files, names)
      ]_vars

\* a report over the sessions (8,2), (5,5), (10,0), (1,1) gives
\* mean(0.8, 0.5, 1.0, 0.5) = 7/10, which is not the pooled 24/32
C15_Witness ==
    /\ DOMAIN ua_files = DOMAIN EarlierSessions
    /\ ua_report.period = MaxReportDays
    /\ ua_report.total_sessions = 4
    /\ ua_report.success_rate = [num |-> 7, den |-> 10]
    /\ ~IsPooledRatio(ua_report.success_rate, ua_files, DOMAIN ua_files)

\* C16: generate_report(days) aggregates exactly the saved sessions with
\* start_time >= now - days: total_sessions is their number, total_commands
\* the sum of their command counts, voice_commands and text_commands the sums
\* of their counters; when none matches every count is zero.
C16_AggregatesWindow ==
    [][\A days \in 1..MaxReportDays :
          LET names == InWindow(ua_files, ua_clock, days)
              data(name) == ua_files[name].data
          IN  (/\ UA_generate_report(days)
               /\ OnlySavedSessions(ua_files, ua_clock, days))
              => /\ ua_report'.total_sessions = Cardinality(names)
                 /\ ua_report'.total_commands =
                        SumOver([name \in names |-> Len(data(name).commands)], names)
                 /\ ua_report'.voice_commands =
                        SumOver([name \in names |-> data(name).voice_commands], names)
                 /\ ua_report'.text_commands =
                        SumOver([name \in names |-> data(name).text_commands], names)
                 /\ names = {} => ua_report' = ZeroReport(days)
      ]_vars

\* a report that counts a session starting exactly at now - days and leaves
\* out an older one
C16_Witness ==
    \E days \in 1..MaxReportDays :
        /\ ua_report = GenerateReport(ua_files, ua_clock, days)
        /\ ua_report.period = days
        /\ ua_report.total_sessions = 2
        /\ ua_report.total_commands = 20
        /\ ua_report.voice_commands = 13
        /\ ua_report.text_commands = 7
        /\ \E name \in InWindow(ua_files, ua_clock, days) :
               ua_files[name].data.start_time = ua_clock - days * TicksPerDay
        /\ \E name \in DOMAIN ua_files :
               /\ IsSavedSession(ua_files[name])
               /\ name \notin InWindow(ua_files, ua_clock, days)

\* C17: when one file of the directory is malformed (no JSON, or a record
\* that lacks session fields), generate_report returns the report it would
\* return without that file.
C17_MalformedFileSkipped ==
    [][\A days \in 1..MaxReportDays, name \in {ForeignName} :
          (/\ UA_generate_report(days)
           /\ name \in DOMAIN ua_files
           /\ ~IsSavedSession(ua_files[name])
           /\ \A other \in DOMAIN ua_files \ {name} : IsSavedSession(ua_files[other]))
          => ua_report' = GenerateReport(Restrict(ua_files, DOMAIN ua_files \ {name}),
                                         ua_clock, days)
      ]_vars

\* C18: when writing the session file fails, save_session signals it to the
\* caller, by an exception or by a return value that differs from the one of
\* a successful save.
C18_FailedSaveSignalled ==
    [][UA_save_session("dump_fails") =>
          \/ ua_raised' # "none"
          \/ SaveSessionReturn("dump_fails") # SaveSessionReturn("ok")
      ]_vars

\* the persisted records of the days 0 .. day, in day-file order and array
\* order
RECURSIVE PersistedUpTo(_)
PersistedUpTo(day) ==
    IF day < 0 THEN <<>>
    ELSE PersistedUpTo(day - 1) \o (IF FileAt(day).st = "ok" THEN FileAt(day).data ELSE <<>>)

\* every persisted record sits in the file of the day of its timestamp
FiledByDay ==
    \A day \in Days : \A i \in 1..Len(FileAt(day).data) :
        DateOf(FileAt(day).data[i].timestamp) = day

\* C19: get_error_details returns exactly the persisted records r with
\* start_date <= r.timestamp <= end_date that pass every filter given, each
\* once, in day-file order and array order, whatever the times of day of
\* start_date and end_date.
C19_DetailsExactlyTheWindow ==
    [][\A error_type \in TypeFilters, category \in CategoryFilters,
         start_date \in 0..MaxClock, end_date \in 0..MaxClock :
          (FiledByDay /\ ET_get_error_details(1, error_type, category, start_date, end_date)) =>
              LET Wanted(r) ==
                      /\ start_date <= r.timestamp /\ r.timestamp <= end_date
                      /\ error_type # "" => r.type = error_type
                      /\ category # "" => r.category = category
              IN  et_details' = SelectSeq(PersistedUpTo(DateOf(MaxClock)), Wanted)
      ]_vars

\* the records track_error has persisted
Persisted == {r \in UNION {{FileAt(day).data[i] : i \in 1..Len(FileAt(day).data)} :
                               day \in Days} : TRUE}

\* the class name ends with one of the given names
EndsWithOneOf(error_type, names) ==
    \E name \in names : EndsWith(Chars(error_type), Chars(name))

\* the table as the claim gives it
ClaimedCategory(error_type) ==
    IF EndsWithOneOf(error_type, {"SystemError"}) THEN "system"
    ELSE IF EndsWithOneOf(error_type, {"ConnectionError", "TimeoutError"}) THEN "network"
    ELSE IF EndsWithOneOf(error_type, {"ValueError", "InputError"}) THEN "user"
    ELSE IF EndsWithOneOf(error_type, {"PermissionError", "AccessError"}) THEN "permission"
    ELSE "unknown"

\* the same table with MemoryError and IOError under system
AmendedCategory(error_type) ==
    IF EndsWithOneOf(error_type, {"SystemError", "MemoryError", "IOError"}) THEN "system"
    ELSE ClaimedCategory(error_type)

\* C20 as stated: the category of a tracked error is given by the suffix
\* table SystemError -> system, ConnectionError/TimeoutError -> network,
\* ValueError/InputError -> user, PermissionError/AccessError -> permission,
\* every other name -> unknown.
C20_CategoryBySuffixTable ==
    \A r \in Persisted : r.category = ClaimedCategory(r.type)

\* C20 amended: the category of a tracked error is a function of the class
\* name alone, given by the suffix table in which SystemError, MemoryError and
\* IOError map to system, ConnectionError/TimeoutError to network,
\* ValueError/InputError to user, PermissionError/AccessError to permission
\* and every other name to unknown; records of the same class carry the same
\* category.
C20_CategoryByAmendedTable ==
    /\ \A r \in Persisted : r.category = AmendedCategory(r.type)
    /\ \A r1, r2 \in Persisted : r1.type = r2.type => r1.category = r2.category

\* a name that only ends with a table entry and a name outside the table have
\* both been classified
C20_Witness ==
    /\ \E r \in Persisted : r.type = "FileSystemError" /\ r.category = "system"
    /\ \E r \in Persisted : r.type = "ValueErrorHandler" /\ r.category = "unknown"

\* self.current_metrics of a SystemMonitor just constructed
SM_FreshMetrics ==
    [cpu_usage |-> 0, memory_usage |-> 0, disk_usage |-> 0, response_times |-> <<>>,
     error_count |-> 0, timestamp |-> -1]

\* the records of errors.json that are less than an hour old
RecentErrorRecords ==
    {i \in 1..Len(sm_errors_json.data) :
        sm_errors_json.data[i].timestamp > sm_clock - SecondsPerHour}

\* C21: get_error_rate returns the number of records of the persisted
\* errors.json whose timestamp lies within the last hour; the value comes from
\* the file and not from error_count, so a SystemMonitor just constructed on
\* the same log directory returns the same value.
C21_ErrorRateFromFile ==
    [][SM_get_error_rate =>
          /\ sm_error_rate' = Cardinality(RecentErrorRecords)
          /\ sm_error_rate' = ErrorRate(SM_FreshMetrics, sm_errors_json, sm_clock)
      ]_vars

\* a rate returned after an older record has left the window, which differs
\* from the counter of the instance
C21_Witness ==
    /\ sm_error_rate = 1
    /\ sm_errors_json.st = "ok"
    /\ Len(sm_errors_json.data) = 2
    /\ Cardinality(RecentErrorRecords) = 1
    /\ sm_current_metrics.error_count = 3

\* the buffer self._metrics_data[name], empty while the name is unknown
BufferOf(name) == IF mc_metrics_data[name] = 0 THEN <<>> ELSE mon_heap[mc_metrics_data[name]]

\* C22: when _store_metric(name, ...) returns, the buffer of `name` holds no
\* point whose timestamp is at or before now - retention_days; a point stored
\* with an older timestamp is gone after that pass.
C22_RetentionEvicts ==
    [][\A name \in MetricNames, age \in 0..MaxAge :
          MC_store_metric(name, 1, mon_clock - age) =>
              \A i \in 1..Len(BufferOf(name)') :
                  BufferOf(name)'[i].timestamp > mon_clock' - RetentionTicks
      ]_vars

\* a point older than the retention period was appended and the buffer bound
\* afterwards holds a younger point and not that one
C22_Witness ==
    \E name \in MetricNames :
        /\ mc_metrics_data[name] > 1
        /\ \E i \in 1..Len(mon_heap[mc_metrics_data[name] - 1]) :
               mon_heap[mc_metrics_data[name] - 1][i].timestamp
                   = mon_clock - RetentionTicks - 1
        /\ Len(BufferOf(name)) > 0
        /\ \A i \in 1..Len(BufferOf(name)) :
               BufferOf(name)[i].timestamp > mon_clock - RetentionTicks

\* C23: an exception raised while sampling never ends a sampling loop: the
\* failed iteration returns to the loop test, and a sampling thread of the
\* SystemMonitor or the PerformanceMonitor terminates only when its monitor has
\* been told to stop.
C23_SamplingSurvivesErrors ==
    [][/\ \A tid \in ThreadIds :
             /\ SM_sample_fails(tid) => sm_threads'[tid].pc = "check"
             /\ (/\ tid \in DOMAIN sm_threads
                 /\ sm_threads[tid].target = "_monitor_system"
                 /\ sm_threads[tid].pc # "done"
                 /\ sm_threads'[tid].pc = "done") => ~sm_running
       /\ \A tid \in PM_ThreadIds :
             /\ PM_sample_fails(tid) => pm_threads'[tid].pc = "check"
             /\ (/\ tid \in DOMAIN pm_threads
                 /\ pm_threads[tid].pc # "done"
                 /\ pm_threads'[tid].pc = "done") => pm_stop_monitoring
      ]_vars

\* after a failed sample the loop of the running PerformanceMonitor is inside
\* its next iteration, beside a live sampling thread of the SystemMonitor
C23_Witness ==
    /\ pm_error_lines > 0
    /\ ~pm_stop_monitoring
    /\ \E tid \in DOMAIN pm_threads : pm_threads[tid].pc = "body"
    /\ sm_running
    /\ LiveThreads("_monitor_system") # {}

\* C24: get_average_response_time returns 0 without raising when no response
\* time has been recorded, and otherwise the arithmetic mean of the response
\* times the buffer holds, which are the 100 most recent ones at most.
C24_AverageOfBuffer ==
    [][SM_get_average_response_time =>
          LET held == LastN(sm_recorded, ResponseTimesCap)
              returned == sm_average'[1]
          IN  /\ returned.raised = "none"
              /\ Len(sm_recorded) = 0 => returned.value = [num |-> 0, den |-> 1]
              /\ Len(sm_recorded) > 0 =>
                     returned.value.num * Len(held) = returned.value.den * SumSeq(held)
      ]_vars

\* the average of the calls 2 .. 101, returned after the first value has been
\* dropped from the buffer: 103/2
C24_Witness ==
    /\ Len(sm_recorded) = ResponseTimesCap + 1
    /\ sm_average = << [raised |-> "none", value |-> [num |-> 103, den |-> 2]] >>

\* C25: a track_error call that fails while persisting leaves the day's error
\* file as it was: the records stored before the call are still there and
\* readable when the call returns.
C25_FailedTrackKeepsFile ==
    [][\A t \in Threads :
          ET_DumpFails(t) =>
              LET file == et_files'[et_local[t].date_str]
              IN  /\ file.st \in {"absent", "ok"}
                  /\ file.data = et_local[t].errors
      ]_vars

\* the current session is one a failed save_session left in memory
KeptAfterFailedSave ==
    /\ ua_logged > 0
    /\ ua_session.end_time # -1

\* C26: after save_session failed to write, the in-memory session remains
\* usable: a following record_feature_usage succeeds without raising, also
\* for a feature name the session has not used before.
C26_SessionUsableAfterFailedSave ==
    [][\A feature_name \in FeatureNames :
          (KeptAfterFailedSave /\ UA_record_feature_usage(feature_name))
              => ua_raised' = "none"
      ]_vars

\* C27: a PerformanceMonitor started again after a stop has a live
\* background thread that samples again: while the monitor is started and no
\* stop is under way, the loop test of its thread lets the loop go on.
C27_RestartedMonitorSamples ==
    [][\A tid \in PM_ThreadIds :
          (/\ PM_loop_check(tid)
           /\ tid = pm_monitor_thread
           /\ pm_caller = "idle")
              => pm_threads'[tid].pc = "body"
      ]_vars

\* the snapshots the system_metrics_<timestamp>.json files hold
SnapshotsInFiles ==
    SumSeq([i \in 1..Len(sm_files) |-> Len(sm_files[i].metrics)])

\* C28: every snapshot the sampling thread has put on the metrics queue is
\* written to a log file, also when stop_monitoring is called while snapshots
\* are queued: once stop_monitoring has returned, no snapshot is left on the
\* queue and the files hold every snapshot sampled.
C28_QueuedSnapshotsWritten ==
    sm_result = "stopped" =>
        /\ sm_queue = <<>>
        /\ SnapshotsInFiles = sm_samples

\* C29: stop on a monitor that was never started is a safe no-op: it raises
\* nothing and changes no state of the SystemMonitor.
C29_StopBeforeStartIsNoOp ==
    [][(sm_starts = 0 /\ SM_stop_begin) =>
          /\ sm_result' # "AttributeError"
          /\ sm_running' = sm_running
          /\ sm_threads' = sm_threads
          /\ sm_caller' = "idle"
      ]_vars

\* the threshold record_response_time compares with: the configured
\* 'response_time' entry, 2.0 seconds when there is none
EffectiveResponseThreshold ==
    IF "response_time" \in DOMAIN pm_thresholds THEN pm_thresholds["response_time"]
    ELSE 2000

\* C30: record_response_time never raises, whatever the duration and the
\* configured thresholds map: it appends the point, and it triggers an alert
\* exactly when the duration is at or above the effective threshold.
C30_RecordResponseTimeNeverRaises ==
    [][\A duration \in Durations :
          PM_record_response_time(duration, "/api/test") =>
              /\ pm_raised' = "none"
              /\ pm_metrics'["response_time"] =
                     DequeAppend(pm_metrics["response_time"],
                                 ResponseTimePoint(mon_clock, duration, "/api/test"))
              /\ (Len(alert_log') = Len(alert_log) + 1)
                     <=> (duration >= EffectiveResponseThreshold)
      ]_vars

====
